---------------------------- MODULE Spec2Model ----------------------------
(* State-machine models of the design-pattern examples under               *)
(* src/ArchitectureTest.  Every example is an independent object graph, so  *)
(* each one gets its own variables, its own actions and its own            *)
(* specification; the variables of the other examples stay at their        *)
(* initial values.                                                         *)
EXTENDS Integers, Sequences, FiniteSets, TLC

VARIABLES
    \* behavioral/interator.py : Iterable
    aggregates, index, iter_built, iter_rets, iter_hn,
    \* behavioral/memento.py : Originator, Caretaker
    _state, _mementos, mem_taken, mem_last,
    \* structural/composite.py : Composite, Leaf
    comp_made, reference_to_parent, components, comp_asked, comp_last,
    \* behavioral/observer.py : Subject, Observer
    obs_made, _observers, obs_evt, obs_last,
    \* structural/proxy.py : Proxy, RealSubject
    enormous_data, real_calls, requests, proxy_last,
    \* structural/flyweight.py : FlyweightFactory, Flyweight, Context
    _flyweights, fw_objs, fw_asked, fw_got, fw_last,
    \* behavioral/command.py : Invoker, Command1, Command2, Receiver
    _commands, cmd_latest, cmd_last,
    \* behavioral/chain_of_responsibility.py : Chain, Successor1, Successor2
    chain_pc, payload, chain_out,
    \* behavioral/visitor.py : Element, CalculateElementsTotalsVisitor
    vis_elements, total_value, vis_asked, vis_last,
    \* structural/adapter.py : AdapterToClassB, ClassB
    ad_made, class_b, method_b_calls, ad_last,
    \* creational/singleton.py : Singleton
    sing_handles, sing_how, sing_instances, Singleton_value, sing_last,
    \* creational/builder.py : Product, Builder, Director
    parts, bld_last,
    \* creational/prototype.py : ConcretePrototype
    lists, field, proto_how, proto_muts, proto_last,
    \* creational/abstract_factory.py : AbstractFactory, FactoryA/B/C, products
    af_products, af_last,
    \* behavioral/interpreter.py : Number, Add, Subtract
    tokens, ast_root, int_rets,
    \* behavioral/template_method.py : AbstractClass, ConcreteClassA, ConcreteClassB
    console, tm_runs, tm_last,
    \* behavioral/state.py : Context, ConcreteStateA, ConcreteStateB, ConcreteStateC
    state_handles, handle, state, st_requests, st_last,
    \* structural/facade.py : Facade, SubSystemClassA, SubSystemClassB, SubSystemClassC
    fac_calls, fac_last,
    \* structural/decorator.py : ConcreteComponent, Decorator
    dec_objects, dec_last,
    \* behavioral/mediator.py : Mediator, Colleague1, Colleague2
    med_calls, med_reached, med_last

iterVars  == <<aggregates, index, iter_built, iter_rets, iter_hn>>
memVars   == <<_state, _mementos, mem_taken, mem_last>>
compVars  == <<comp_made, reference_to_parent, components, comp_asked,
               comp_last>>
obsVars   == <<obs_made, _observers, obs_evt, obs_last>>
proxyVars == <<enormous_data, real_calls, requests, proxy_last>>

fwVars    == <<_flyweights, fw_objs, fw_asked, fw_got, fw_last>>
cmdVars   == <<_commands, cmd_latest, cmd_last>>
chainVars == <<chain_pc, payload, chain_out>>
visVars   == <<vis_elements, total_value, vis_asked, vis_last>>
adVars    == <<ad_made, class_b, method_b_calls, ad_last>>
singVars  == <<sing_handles, sing_how, sing_instances, Singleton_value, sing_last>>
bldVars   == <<parts, bld_last>>
protoVars == <<lists, field, proto_how, proto_muts, proto_last>>
afVars    == <<af_products, af_last>>
intVars   == <<tokens, ast_root, int_rets>>
tmVars    == <<console, tm_runs, tm_last>>
stVars    == <<state_handles, handle, state, st_requests, st_last>>
facVars   == <<fac_calls, fac_last>>
decVars   == <<dec_objects, dec_last>>
medVars   == <<med_calls, med_reached, med_last>>

vars == <<iterVars, memVars, compVars, obsVars, proxyVars, fwVars,
         cmdVars, chainVars, visVars, adVars, singVars, bldVars,
         protoVars, afVars, intVars, tmVars, stVars, facVars,
         decVars, medVars>>

\* What the actions of one example leave alone: every other example.
IterFrame  ==
    UNCHANGED <<memVars, compVars, obsVars, proxyVars, fwVars, cmdVars,
                chainVars, visVars, adVars, singVars, bldVars, protoVars,
                afVars, intVars, tmVars, stVars, facVars, decVars,
                medVars>>
MemFrame   ==
    UNCHANGED <<iterVars, compVars, obsVars, proxyVars, fwVars, cmdVars,
                chainVars, visVars, adVars, singVars, bldVars, protoVars,
                afVars, intVars, tmVars, stVars, facVars, decVars,
                medVars>>
CompFrame  ==
    UNCHANGED <<iterVars, memVars, obsVars, proxyVars, fwVars, cmdVars,
                chainVars, visVars, adVars, singVars, bldVars, protoVars,
                afVars, intVars, tmVars, stVars, facVars, decVars,
                medVars>>
ObsFrame   ==
    UNCHANGED <<iterVars, memVars, compVars, proxyVars, fwVars, cmdVars,
                chainVars, visVars, adVars, singVars, bldVars, protoVars,
                afVars, intVars, tmVars, stVars, facVars, decVars,
                medVars>>
ProxyFrame ==
    UNCHANGED <<iterVars, memVars, compVars, obsVars, fwVars, cmdVars,
                chainVars, visVars, adVars, singVars, bldVars, protoVars,
                afVars, intVars, tmVars, stVars, facVars, decVars,
                medVars>>
FwFrame    ==
    UNCHANGED <<iterVars, memVars, compVars, obsVars, proxyVars, cmdVars,
                chainVars, visVars, adVars, singVars, bldVars, protoVars,
                afVars, intVars, tmVars, stVars, facVars, decVars,
                medVars>>
CmdFrame   ==
    UNCHANGED <<iterVars, memVars, compVars, obsVars, proxyVars, fwVars,
                chainVars, visVars, adVars, singVars, bldVars, protoVars,
                afVars, intVars, tmVars, stVars, facVars, decVars,
                medVars>>
ChainFrame ==
    UNCHANGED <<iterVars, memVars, compVars, obsVars, proxyVars, fwVars,
                cmdVars, visVars, adVars, singVars, bldVars, protoVars,
                afVars, intVars, tmVars, stVars, facVars, decVars,
                medVars>>
VisFrame   ==
    UNCHANGED <<iterVars, memVars, compVars, obsVars, proxyVars, fwVars,
                cmdVars, chainVars, adVars, singVars, bldVars, protoVars,
                afVars, intVars, tmVars, stVars, facVars, decVars,
                medVars>>
AdFrame    ==
    UNCHANGED <<iterVars, memVars, compVars, obsVars, proxyVars, fwVars,
                cmdVars, chainVars, visVars, singVars, bldVars, protoVars,
                afVars, intVars, tmVars, stVars, facVars, decVars,
                medVars>>
SingFrame  ==
    UNCHANGED <<iterVars, memVars, compVars, obsVars, proxyVars, fwVars,
                cmdVars, chainVars, visVars, adVars, bldVars, protoVars,
                afVars, intVars, tmVars, stVars, facVars, decVars,
                medVars>>
BldFrame   ==
    UNCHANGED <<iterVars, memVars, compVars, obsVars, proxyVars, fwVars,
                cmdVars, chainVars, visVars, adVars, singVars, protoVars,
                afVars, intVars, tmVars, stVars, facVars, decVars,
                medVars>>
ProtoFrame ==
    UNCHANGED <<iterVars, memVars, compVars, obsVars, proxyVars, fwVars,
                cmdVars, chainVars, visVars, adVars, singVars, bldVars,
                afVars, intVars, tmVars, stVars, facVars, decVars,
                medVars>>
AfFrame    ==
    UNCHANGED <<iterVars, memVars, compVars, obsVars, proxyVars, fwVars,
                cmdVars, chainVars, visVars, adVars, singVars, bldVars,
                protoVars, intVars, tmVars, stVars, facVars, decVars,
                medVars>>
IntFrame   ==
    UNCHANGED <<iterVars, memVars, compVars, obsVars, proxyVars, fwVars,
                cmdVars, chainVars, visVars, adVars, singVars, bldVars,
                protoVars, afVars, tmVars, stVars, facVars, decVars,
                medVars>>
TmFrame    ==
    UNCHANGED <<iterVars, memVars, compVars, obsVars, proxyVars, fwVars,
                cmdVars, chainVars, visVars, adVars, singVars, bldVars,
                protoVars, afVars, intVars, stVars, facVars, decVars,
                medVars>>
StFrame    ==
    UNCHANGED <<iterVars, memVars, compVars, obsVars, proxyVars, fwVars,
                cmdVars, chainVars, visVars, adVars, singVars, bldVars,
                protoVars, afVars, intVars, tmVars, facVars, decVars,
                medVars>>
FacFrame   ==
    UNCHANGED <<iterVars, memVars, compVars, obsVars, proxyVars, fwVars,
                cmdVars, chainVars, visVars, adVars, singVars, bldVars,
                protoVars, afVars, intVars, tmVars, stVars, decVars,
                medVars>>
DecFrame   ==
    UNCHANGED <<iterVars, memVars, compVars, obsVars, proxyVars, fwVars,
                cmdVars, chainVars, visVars, adVars, singVars, bldVars,
                protoVars, afVars, intVars, tmVars, stVars, facVars,
                medVars>>
MedFrame   ==
    UNCHANGED <<iterVars, memVars, compVars, obsVars, proxyVars, fwVars,
                cmdVars, chainVars, visVars, adVars, singVars, bldVars,
                protoVars, afVars, intVars, tmVars, stVars, facVars,
                decVars>>

\* Python's None
None == "None"

\* A Python list is 0-based; a TLA+ sequence is 1-based.
ListAt(list, i) == list[i + 1]

DictSetDefault(dict, key, value) ==
    IF key \in DOMAIN dict THEN dict ELSE dict @@ (key :> value)

\* dict[key] = value
DictSet(dict, key, value) ==
    [k \in DOMAIN dict \cup {key} |-> IF k = key THEN value ELSE dict[k]]

RECURSIVE SeqsUpTo(_, _)
\* All sequences over S of length at most n.
SeqsUpTo(S, n) ==
    IF n = 0 THEN {<<>>}
    ELSE LET shorter == SeqsUpTo(S, n - 1)
         IN  shorter \cup {Append(s, x) : s \in {t \in shorter : Len(t) = n - 1}, x \in S}

(***************************************************************************)
(* Iterator (behavioral/interator.py)                                      *)
(***************************************************************************)

\* Longest collection handed to Iterable(...)
MaxLen == 3
\* Most next() calls made on one Iterable
MaxCalls == 5

Aggregates == {"Aggregate 1", "Aggregate 2", "Aggregate 3"}

IterInit ==
    /\ aggregates = <<>>
    /\ index = 0
    /\ iter_built = FALSE
    /\ iter_rets = <<>>
    /\ iter_hn = <<>>

\* Iterable.__init__(aggregates)
Iterable_init(collection) ==
    /\ aggregates' = collection
    /\ index' = 0
    /\ iter_built' = TRUE
    /\ iter_rets' = <<>>
    /\ iter_hn' = <<>>

has_next_early(idx, aggs) == idx + 1 < Len(aggs)

\* Iterable.has_next: self.index < len(self.aggregates)
has_next(idx, aggs) == idx < Len(aggs)

\* Iterable.next(): the item at index and index + 1, or None and the index as it is
Iterable_next ==
    /\ iter_built
    /\ Len(iter_rets) < MaxCalls
    /\ IF has_next(index, aggregates)
       THEN /\ iter_rets' = Append(iter_rets, ListAt(aggregates, index))
            /\ index' = index + 1
       ELSE /\ iter_rets' = Append(iter_rets, None)
            /\ index' = index
    /\ UNCHANGED <<aggregates, iter_built, iter_hn>>

\* A call of Iterable.has_next(); iter_hn keeps (as a one-element sequence) what
\* the last call answered and after how many next() calls it was made.
Iterable_has_next ==
    /\ iter_built
    /\ iter_hn' = <<[at |-> Len(iter_rets), res |-> has_next(index, aggregates)]>>
    /\ UNCHANGED <<aggregates, index, iter_built, iter_rets>>

IterNext ==
    \/ \E collection \in SeqsUpTo(Aggregates, MaxLen) : Iterable_init(collection) /\ IterFrame
    \/ Iterable_next /\ IterFrame
    \/ Iterable_has_next /\ IterFrame

(***************************************************************************)
(* Memento (behavioral/memento.py)                                         *)
(***************************************************************************)

\* Most mementos a Caretaker is asked to keep
MaxMementos == 3

States == {"State #1", "State #2", "State #3"}

MemInit ==
    /\ _state = ""
    /\ _mementos = <<>>
    /\ mem_taken = <<>>
    /\ mem_last = [op |-> "init"]

\* What a state setter would do if the stored mementos shared the
\* originator's state instead of holding their own
SetStateInMementos(s) ==
    /\ _state' = s
    /\ _mementos' = [k \in 1 .. Len(_mementos) |-> [state |-> s]]
    /\ mem_last' = [op |-> "state"]
    /\ UNCHANGED mem_taken

\* Originator.state setter
Originator_set_state(s) ==
    /\ _state' = s
    /\ mem_last' = [op |-> "state"]
    /\ UNCHANGED <<_mementos, mem_taken>>

\* Originator.memento getter: Memento(self._state)
Memento(s) == [state |-> s]

StoreFirst(list, m) == <<m>> \o list

\* list.append
StoreMemento(list, m) == Append(list, m)

\* Caretaker.create(); mem_taken keeps the originator's state at each create()
Caretaker_create ==
    /\ Len(_mementos) < MaxMementos
    /\ _mementos' = StoreMemento(_mementos, Memento(_state))
    /\ mem_taken' = Append(mem_taken, _state)
    /\ mem_last' = [op |-> "create"]
    /\ UNCHANGED _state

\* Python list indexing: i in -len .. len-1, a negative i counts from the end
InRange(list, i) == -Len(list) <= i /\ i < Len(list)
PyIndex(list, i) == IF i < 0 THEN list[Len(list) + i + 1] ELSE ListAt(list, i)

\* Caretaker.restore(index): self._mementos[index] raises IndexError out of range
Caretaker_restore(i) ==
    /\ IF InRange(_mementos, i)
       THEN /\ _state' = PyIndex(_mementos, i).state
            /\ mem_last' = [op |-> "restore", i |-> i, raised |-> None]
       ELSE /\ _state' = _state
            /\ mem_last' = [op |-> "restore", i |-> i, raised |-> "IndexError"]
    /\ UNCHANGED <<_mementos, mem_taken>>

MemNext ==
    \/ \E s \in States : Originator_set_state(s) /\ MemFrame
    \/ Caretaker_create /\ MemFrame
    \/ \E i \in -MaxMementos .. MaxMementos : Caretaker_restore(i) /\ MemFrame

(***************************************************************************)
(* Composite (structural/composite.py)                                     *)
(***************************************************************************)

\* The Composite objects a client may create
Composites == {"c1", "c2", "c3", "c4"}

\* What self.reference_to_parent evaluates to while the object has no instance
\* attribute of that name: Composite defines a method reference_to_parent, so
\* the lookup finds that function instead of IComponent's None.
ClassFunction == "function"

Range(list) == {list[k] : k \in 1 .. Len(list)}

\* comp_asked[p] lists, in call order, the components whose latest attach call
\* was p.attach(component) and that had no detach() call since.
CompInit ==
    /\ comp_made = {}
    /\ reference_to_parent = [c \in Composites |-> ClassFunction]
    /\ components = [c \in Composites |-> <<>>]
    /\ comp_asked = [c \in Composites |-> <<>>]
    /\ comp_last = [op |-> "init"]

\* The object graph the methods below work on
Heap == [ref |-> reference_to_parent, comps |-> components]

\* list.remove(x): drops the first x, ValueError when there is none
RECURSIVE ListRemove(_, _)
ListRemove(list, x) ==
    IF list = <<>> THEN <<>>
    ELSE IF Head(list) = x THEN Tail(list)
    ELSE <<Head(list)>> \o ListRemove(Tail(list), x)

\* Composite.delete(component) on parent p
Composite_delete(h, p, c) ==
    IF c \in Range(h.comps[p])
    THEN [heap |-> [h EXCEPT !.comps[p] = ListRemove(@, c)], raised |-> None]
    ELSE [heap |-> h, raised |-> "ValueError"]

\* What a detach() that left everything as it is would do
DetachNothing(h, c) == [heap |-> h, raised |-> None]

\* Composite.detach(): a parent reference that is not None is asked to delete
\* self; the class-level function has no delete, which is an AttributeError.
Composite_detach(h, c) ==
    IF h.ref[c] = None THEN [heap |-> h, raised |-> None]
    ELSE IF h.ref[c] = ClassFunction THEN [heap |-> h, raised |-> "AttributeError"]
    ELSE LET d == Composite_delete(h, h.ref[c], c)
         IN  IF d.raised # None THEN d
             ELSE [heap |-> [d.heap EXCEPT !.ref[c] = None], raised |-> None]

\* Composite.attach(component) on p: detach, set the parent, append
Composite_attach(h, p, c) ==
    LET d == Composite_detach(h, c)
    IN  IF d.raised # None THEN d
        ELSE [heap |-> [d.heap EXCEPT !.ref[c] = p, !.comps[p] = Append(@, c)],
              raised |-> None]

\* Composite()
NewComposite(c) ==
    /\ c \notin comp_made
    /\ comp_made' = comp_made \cup {c}
    /\ components' = [components EXCEPT ![c] = <<>>]
    /\ comp_last' = [op |-> "Composite", child |-> c, raised |-> None]
    /\ UNCHANGED <<reference_to_parent, comp_asked>>

\* Leaf(): method and detach are still abstract in Leaf, so ABCMeta refuses
NewLeaf ==
    /\ comp_last' = [op |-> "Leaf", raised |-> "TypeError"]
    /\ UNCHANGED <<comp_made, reference_to_parent, components, comp_asked>>

Attach(p, c) ==
    /\ p \in comp_made /\ c \in comp_made
    /\ LET r == Composite_attach(Heap, p, c)
       IN  /\ reference_to_parent' = r.heap.ref
           /\ components' = r.heap.comps
           /\ comp_last' = [op |-> "attach", parent |-> p, child |-> c,
                            was |-> reference_to_parent[c], raised |-> r.raised]
    /\ comp_asked' = [q \in Composites |->
                         IF q = p THEN Append(ListRemove(comp_asked[q], c), c)
                         ELSE ListRemove(comp_asked[q], c)]
    /\ UNCHANGED comp_made

Detach(c) ==
    /\ c \in comp_made
    /\ LET r == Composite_detach(Heap, c)
       IN  /\ reference_to_parent' = r.heap.ref
           /\ components' = r.heap.comps
           /\ comp_last' = [op |-> "detach", child |-> c,
                            was |-> reference_to_parent[c], raised |-> r.raised]
    /\ comp_asked' = [q \in Composites |-> ListRemove(comp_asked[q], c)]
    /\ UNCHANGED comp_made

\* Composite.method(): print this node, then call method() of every component
\* in list order. The value is the sequence of nodes printed; a chain of
\* calls deeper than any tree of these objects can be ends in RecursionError.
RECURSIVE Composite_method(_, _, _)
RECURSIVE MethodEach(_, _, _)
Composite_method(h, c, depth) ==
    IF depth = 0 THEN <<"RecursionError">>
    ELSE <<c>> \o MethodEach(h, h.comps[c], depth)

MethodEach(h, list, depth) ==
    IF list = <<>> THEN <<>>
    ELSE LET first == Composite_method(h, Head(list), depth - 1)
         IN  IF "RecursionError" \in Range(first) THEN first
             ELSE first \o MethodEach(h, Tail(list), depth)

Method(c) ==
    /\ c \in comp_made
    /\ comp_last' = [op |-> "method", child |-> c, raised |-> None,
                     printed |-> Composite_method(Heap, c, Cardinality(Composites))]
    /\ UNCHANGED <<comp_made, reference_to_parent, components, comp_asked>>

CompNext ==
    \/ \E c \in Composites : NewComposite(c) /\ CompFrame
    \/ NewLeaf /\ CompFrame
    \/ \E p, c \in Composites : Attach(p, c) /\ CompFrame
    \/ \E c \in Composites : Detach(c) /\ CompFrame
    \/ \E c \in Composites : Method(c) /\ CompFrame

(***************************************************************************)
(* Observer (behavioral/observer.py)                                       *)
(***************************************************************************)

\* The Observer objects a client may create
Observers == {"A", "B", "C"}

\* The argument tuples a client notifies with
NotifyArgs == {<<"First notification", "[1, 2, 3]">>, <<"Second notification">>, <<>>}

ObsInit ==
    /\ obs_made = {}
    /\ _observers = {}
    /\ obs_evt = [o \in Observers |-> "never"]
    /\ obs_last = [op |-> "init"]

SetKeep(S, o) == S
SetClear(S, o) == {}

\* set.add and set.remove (of a member)
SetAdd(S, o) == S \cup {o}
SetRemove(S, o) == S \ {o}

\* Subject.subscribe; obs_evt keeps each observer's last subscription event
Subject_subscribe(o) ==
    /\ _observers' = SetAdd(_observers, o)
    /\ obs_evt' = [obs_evt EXCEPT ![o] = "subscribed"]

\* Observer(observable, name): subscribes itself
NewObserver(o) ==
    /\ o \notin obs_made
    /\ obs_made' = obs_made \cup {o}
    /\ Subject_subscribe(o)
    /\ obs_last' = [op |-> "Observer", who |-> o, raised |-> None]

Subscribe(o) ==
    /\ o \in obs_made
    /\ Subject_subscribe(o)
    /\ obs_last' = [op |-> "subscribe", who |-> o, raised |-> None]
    /\ UNCHANGED obs_made

\* Subject.unsubscribe: set.remove raises KeyError for a non-member
Unsubscribe(o) ==
    /\ o \in obs_made
    /\ IF o \in _observers
       THEN /\ _observers' = SetRemove(_observers, o)
            /\ obs_evt' = [obs_evt EXCEPT ![o] = "unsubscribed"]
            /\ obs_last' = [op |-> "unsubscribe", who |-> o, raised |-> None,
                             before |-> _observers]
       ELSE /\ obs_last' = [op |-> "unsubscribe", who |-> o, raised |-> "KeyError",
                             before |-> _observers]
            /\ UNCHANGED <<_observers, obs_evt>>
    /\ UNCHANGED obs_made

\* The loop of Subject.notify: observer.update(args) for every member of the
\* set, in whatever order the set yields them; got[o] lists what o received.
RECURSIVE UpdateEach(_, _, _)
UpdateEach(S, args, got) ==
    IF S = {} THEN got
    ELSE LET o == CHOOSE x \in S : TRUE
         IN  UpdateEach(S \ {o}, args, [got EXCEPT ![o] = Append(@, args)])

Notify(args) ==
    /\ obs_last' = [op |-> "notify", args |-> args,
                    got |-> UpdateEach(_observers, args, [o \in Observers |-> <<>>])]
    /\ UNCHANGED <<obs_made, _observers, obs_evt>>

ObsNext ==
    \/ \E o \in Observers : NewObserver(o) /\ ObsFrame
    \/ \E o \in Observers : Subscribe(o) /\ ObsFrame
    \/ \E o \in Observers : Unsubscribe(o) /\ ObsFrame
    \/ \E args \in NotifyArgs : Notify(args) /\ ObsFrame

(***************************************************************************)
(* Proxy (structural/proxy.py)                                             *)
(***************************************************************************)

\* Most request() calls made on one Proxy
MaxRequests == 3

\* The Proxy objects of the client, each with a RealSubject of its own
Proxies == {"p1", "p2", "p3"}

\* RealSubject.request(): self.enormous_data, which __init__ set to [1, 2, 3]
RealSubject_request == <<1, 2, 3>>

ProxyInit ==
    /\ enormous_data = [p \in Proxies |-> <<>>]
    /\ real_calls = [p \in Proxies |-> 0]
    /\ requests = [p \in Proxies |-> 0]
    /\ proxy_last = [op |-> "init"]

NeverCached(data) == TRUE

\* self.enormous_data == []
CacheEmpty(data) == data = <<>>

\* Proxy.request(); real_calls counts the calls of RealSubject.request()
Proxy_request(p) ==
    /\ requests[p] < MaxRequests
    /\ requests' = [requests EXCEPT ![p] = @ + 1]
    /\ IF CacheEmpty(enormous_data[p])
       THEN /\ enormous_data' = [enormous_data EXCEPT ![p] = RealSubject_request]
            /\ real_calls' = [real_calls EXCEPT ![p] = @ + 1]
            /\ proxy_last' = [op |-> "request", proxy |-> p, from |-> "RealSubject",
                              data |-> RealSubject_request]
       ELSE /\ proxy_last' = [op |-> "request", proxy |-> p, from |-> "cache",
                              data |-> enormous_data[p]]
            /\ UNCHANGED <<enormous_data, real_calls>>

ProxyNext ==
    \E p \in Proxies : Proxy_request(p) /\ ProxyFrame

(***************************************************************************)
(* Flyweight (structural/flyweight.py)                                     *)
(***************************************************************************)

\* The codes a client asks for: the characters of "abracadabra"
Codes == {"a", "b", "r", "c", "d"}

Abracadabra == <<"a", "b", "r", "a", "c", "a", "d", "a", "b", "r", "a">>

\* The strings the Context objects are built from
ContextCodes == {Abracadabra, <<"c", "a", "b">>, <<"d", "a", "d">>, <<>>}

\* The class attribute _flyweights is an empty dict; fw_objs is the heap of
\* Flyweight objects, object k being the k-th one constructed.
FwInit ==
    /\ _flyweights = <<>>
    /\ fw_objs = <<>>
    /\ fw_asked = {}
    /\ fw_got = [k \in Codes |-> {}]
    /\ fw_last = [op |-> "init"]

\* Flyweight(code)
Flyweight(code) == [code |-> code]

NeverInCache(cache, code) == FALSE

\* code in cls._flyweights
InCache(cache, code) == code \in DOMAIN cache

\* FlyweightFactory.get_flyweight(code) on the factory state f = [cache, objs]:
\* the state afterwards and the object returned
get_flyweight(f, code) ==
    LET g == IF InCache(f.cache, code) THEN f
             ELSE [cache |-> DictSet(f.cache, code, Len(f.objs) + 1),
                   objs  |-> Append(f.objs, Flyweight(code))]
    IN  [f |-> g, ret |-> g.cache[code]]

\* FlyweightFactory.get_count()
get_count == Cardinality(DOMAIN _flyweights)

\* The loop of Context.ouptut(): each code's flyweight is fetched and its code
\* appended to ret; got keeps the objects each code was answered with.
RECURSIVE ouptut(_, _, _, _)
ouptut(f, codes, ret, got) ==
    IF codes = <<>> THEN [f |-> f, ret |-> ret, got |-> got]
    ELSE LET r == get_flyweight(f, Head(codes))
         IN  ouptut(r.f, Tail(codes), Append(ret, r.f.objs[r.ret].code),
                    [got EXCEPT ![Head(codes)] = @ \cup {r.ret}])

\* A client's call of FlyweightFactory.get_flyweight(code)
GetFlyweight(code) ==
    LET r == get_flyweight([cache |-> _flyweights, objs |-> fw_objs], code)
    IN  /\ _flyweights' = r.f.cache
        /\ fw_objs' = r.f.objs
        /\ fw_asked' = fw_asked \cup {code}
        /\ fw_got' = [fw_got EXCEPT ![code] = @ \cup {r.ret}]
        /\ fw_last' = [op |-> "get_flyweight", code |-> code, ret |-> r.ret]

\* Context(codes).ouptut()
Context_ouptut(codes) ==
    LET r == ouptut([cache |-> _flyweights, objs |-> fw_objs], codes, <<>>, fw_got)
    IN  /\ _flyweights' = r.f.cache
        /\ fw_objs' = r.f.objs
        /\ fw_asked' = fw_asked \cup Range(codes)
        /\ fw_got' = r.got
        /\ fw_last' = [op |-> "ouptut", codes |-> codes, ret |-> r.ret]

FwNext ==
    \/ \E code \in Codes : GetFlyweight(code) /\ FwFrame
    \/ \E codes \in ContextCodes : Context_ouptut(codes) /\ FwFrame

(***************************************************************************)
(* Command (behavioral/command.py)                                         *)
(***************************************************************************)

\* The names a client registers and executes
Names == {"1", "2", "3"}

\* The command objects of the client and the class of each
CommandObjects == {"command_1", "command_2", "command_1b"}
ClassOf(command) == IF command = "command_2" THEN "Command2" ELSE "Command1"

CmdInit ==
    /\ _commands = <<>>
    /\ cmd_latest = [n \in Names |-> None]
    /\ cmd_last = [op |-> "init"]

\* Command1.execute / Command2.execute: the receiver's method that runs
Command_execute(command) ==
    IF ClassOf(command) = "Command1" THEN "run_command_1" ELSE "run_command_2"

NotRecognised(name) == <<"Command [", name, "] not recognised">>

execute_unguarded(dict, name) ==
    IF name \in DOMAIN dict
    THEN [ran |-> <<Command_execute(dict[name])>>, out |-> <<>>, raised |-> None]
    ELSE [ran |-> <<>>, out |-> <<>>, raised |-> "KeyError"]

\* Invoker.execute_commands(command_name): the receiver methods run, the text
\* printed by the invoker, and the exception raised
execute_commands(dict, name) ==
    IF name \in DOMAIN dict
    THEN [ran |-> <<Command_execute(dict[name])>>, out |-> <<>>, raised |-> None]
    ELSE [ran |-> <<>>, out |-> NotRecognised(name), raised |-> None]

\* Invoker.register; cmd_latest keeps the command last registered under a name
Invoker_register(name, command) ==
    /\ _commands' = DictSet(_commands, name, command)
    /\ cmd_latest' = [cmd_latest EXCEPT ![name] = command]
    /\ cmd_last' = [op |-> "register", name |-> name]

Invoker_execute_commands(name) ==
    /\ cmd_last' = [op |-> "execute", name |-> name, before |-> _commands,
                    res |-> execute_commands(_commands, name)]
    /\ UNCHANGED <<_commands, cmd_latest>>

CmdNext ==
    \/ \E name \in Names, command \in CommandObjects :
           Invoker_register(name, command) /\ CmdFrame
    \/ \E name \in Names : Invoker_execute_commands(name) /\ CmdFrame

(***************************************************************************)
(* Chain of Responsibility (behavioral/chain_of_responsibility.py)         *)
(***************************************************************************)

\* Largest numerator and largest binary exponent of a payload the model follows
MaxNum == 8
MaxExp == 2

\* The integers a client starts the chain with
StartPayloads == {0, 1, 2}

RECURSIVE Pow2(_)
Pow2(k) == IF k = 0 THEN 1 ELSE 2 * Pow2(k - 1)

\* A payload is a Python number: an int, or a float with the value n / 2^e
\* (n odd when e > 0), which is exact for the floats this chain produces.
PyInt(n) == [ty |-> "int", n |-> n, e |-> 0]

PyAdd(x, k) == [x EXCEPT !.n = @ + k * Pow2(x.e)]
PyMul2(x) == IF x.e > 0 THEN [x EXCEPT !.e = @ - 1] ELSE [x EXCEPT !.n = 2 * @]

\* payload / 2: true division, whose result is a float whatever the operand
PyDiv2(x) ==
    IF x.e = 0 /\ x.n % 2 = 0 THEN [ty |-> "float", n |-> x.n \div 2, e |-> 0]
    ELSE [ty |-> "float", n |-> x.n, e |-> x.e + 1]

Followed(x) == -MaxNum <= x.n /\ x.n <= MaxNum /\ x.e <= MaxExp

ChainInit ==
    /\ chain_pc = "idle"
    /\ payload = PyInt(0)
    /\ chain_out = <<>>

\* Chain.start(payload): Successor1().handle(payload)
Chain_start(p) ==
    /\ chain_pc \in {"idle", "done"}
    /\ chain_pc' = "Successor1"
    /\ payload' = PyInt(p)
    /\ chain_out' = <<>>

\* One call of a handler that forwards: the payload it hands on and the handler
\* it hands it to.
Forward(here, next, to) ==
    /\ chain_pc = here
    /\ Followed(next)
    /\ payload' = next
    /\ chain_pc' = to
    /\ UNCHANGED chain_out

\* Successor1.handle with random.randint(1, 2) = 1, and = 2
Successor1_test1 == Forward("Successor1", PyAdd(payload, 1), "Successor1")
Successor1_test2 == Forward("Successor1", PyAdd(payload, -1), "Successor2")

\* Successor2.handle with random.randint(1, 3) = 1, and = 2
Successor2_test1 == Forward("Successor2", PyMul2(payload), "Successor1")
Successor2_test2 == Forward("Successor2", PyDiv2(payload), "Successor2")

Successor2_never3 == FALSE /\ UNCHANGED chainVars

\* Successor2.handle with random.randint(1, 3) = 3: no branch is taken and the
\* payload is returned; every calling handler assigns what its callee returned
\* to payload, takes no further branch (its test has not changed) and returns
\* it, down to Chain.start.
Successor2_test3 ==
    /\ chain_pc = "Successor2"
    /\ chain_pc' = "done"
    /\ chain_out' = <<payload>>
    /\ UNCHANGED payload

ChainNext ==
    \/ \E p \in StartPayloads : Chain_start(p) /\ ChainFrame
    \/ Successor1_test1 /\ ChainFrame
    \/ Successor1_test2 /\ ChainFrame
    \/ Successor2_test1 /\ ChainFrame
    \/ Successor2_test2 /\ ChainFrame
    \/ Successor2_test3 /\ ChainFrame

\* Each value of random.randint that is drawn again and again is drawn in the
\* end: every branch offered infinitely often is taken.
ChainFair ==
    /\ SF_vars(Successor1_test1 /\ ChainFrame)
    /\ SF_vars(Successor1_test2 /\ ChainFrame)
    /\ SF_vars(Successor2_test1 /\ ChainFrame)
    /\ SF_vars(Successor2_test2 /\ ChainFrame)
    /\ SF_vars(Successor2_test3 /\ ChainFrame)

(***************************************************************************)
(* Visitor (behavioral/visitor.py)                                         *)
(***************************************************************************)

\* The names and values a client builds Elements with
ElementNames == {"A", "B", "C", "D"}
ElementValues == {100, 200, 300, 400}

Visitors == {"PrintElementNamesVisitor", "CalculateElementsTotalsVisitor"}

\* The abstract methods a class is left with: Element derives from IVisitable,
\* whose accept is abstract, and defines no accept of its own.
AbstractMethods(class) == IF class = "Element" THEN {"accept"} ELSE {}

\* vis_elements maps each Element object (known by its name) to its fields;
\* vis_asked keeps the value of every Element the client asked for.
VisInit ==
    /\ vis_elements = <<>>
    /\ total_value = 0
    /\ vis_asked = [n \in ElementNames |-> 0]
    /\ vis_last = [op |-> "init"]

\* Element.__init__(name, value, parent) on the heap of elements
Element_init(heap, name, value, parent) ==
    LET made == DictSet(heap, name, [name |-> name, value |-> value, elements |-> {}])
    IN  IF parent # None
        THEN [made EXCEPT ![parent].elements = @ \cup {name}]
        ELSE made

\* Element(name, value, parent): ABCMeta refuses a class with abstract methods
\* before __init__ runs
NewElement(name, value, parent) ==
    /\ parent \in DOMAIN vis_elements \cup {None}
    /\ vis_asked' = [vis_asked EXCEPT ![name] = value]
    /\ IF AbstractMethods("Element") # {}
       THEN /\ vis_elements' = vis_elements
            /\ vis_last' = [op |-> "Element", name |-> name, raised |-> "TypeError"]
       ELSE /\ vis_elements' = Element_init(vis_elements, name, value, parent)
            /\ vis_last' = [op |-> "Element", name |-> name, raised |-> None]
    /\ UNCHANGED total_value

\* IVisitable.accept(visitor), the only accept there is: its body is a
\* docstring, so it visits nothing and returns None
IVisitable_accept(visitor) == [visited |-> <<>>, ret |-> None]

\* Element.accept(visitor), called on the class as no Element object exists
Accept(visitor) ==
    /\ vis_last' = [op |-> "accept", visitor |-> visitor,
                    visited |-> IVisitable_accept(visitor).visited]
    /\ UNCHANGED <<vis_elements, total_value, vis_asked>>

VisNext ==
    \/ \E name \in ElementNames, value \in ElementValues,
          parent \in ElementNames \cup {None} :
           NewElement(name, value, parent) /\ VisFrame
    \/ \E visitor \in Visitors : Accept(visitor) /\ VisFrame

(***************************************************************************)
(* Adapter (structural/adapter.py)                                         *)
(***************************************************************************)

MaxDelegations == 3

Adapters == {"adapter_1", "adapter_2", "adapter_3"}

\* The ClassB object an adapter makes for itself
ClassBOf(a) == <<"ClassB", a>>

\* class_b[a] is the field self.class_b of adapter a; method_b_calls counts
\* the calls each ClassB object has received.
AdInit ==
    /\ ad_made = {}
    /\ class_b = [a \in Adapters |-> None]
    /\ method_b_calls = [a \in Adapters |-> 0]
    /\ ad_last = [op |-> "init"]

\* ClassB.method_b()
ClassB_method_b == "method_b()"

\* AdapterToClassB.__init__()
NewAdapter(a) ==
    /\ a \notin ad_made
    /\ ad_made' = ad_made \cup {a}
    /\ class_b' = [class_b EXCEPT ![a] = ClassBOf(a)]
    /\ ad_last' = [op |-> "AdapterToClassB", adapter |-> a]
    /\ UNCHANGED method_b_calls

\* AdapterToClassB.method_a(): self.class_b.method_b() is called and its
\* value dropped; a function body that ends without return gives None
AdapterToClassB_method_a(a) ==
    LET called == ClassB_method_b
    IN  [calls |-> [method_b_calls EXCEPT ![a] = @ + 1], ret |-> None]

Method_a(a) ==
    /\ a \in ad_made
    /\ method_b_calls[a] < MaxDelegations
    /\ method_b_calls' = AdapterToClassB_method_a(a).calls
    /\ ad_last' = [op |-> "method_a", adapter |-> a,
                   ret |-> AdapterToClassB_method_a(a).ret]
    /\ UNCHANGED <<ad_made, class_b>>

AdNext ==
    \/ \E a \in Adapters : NewAdapter(a) /\ AdFrame
    \/ \E a \in Adapters : Method_a(a) /\ AdFrame

(***************************************************************************)
(* Singleton (creational/singleton.py)                                     *)
(***************************************************************************)

MaxValues == 2

\* The client's variables that hold a handle, and what it appends to value
Handles == {"sngl_a", "sngl_b", "sngl_c"}
SingValues == {1, 2}

\* Objects: a class object, or the n-th instance made of a class
ClassObject(cls) == [kind |-> "class", of |-> cls, n |-> 0]
Instance(cls, n) == [kind |-> "instance", of |-> cls, n |-> n]
NoObject == [kind |-> "unbound", of |-> "", n |-> 0]

\* sing_instances counts the instances of Singleton ever made; Singleton_value is
\* the class attribute Singleton.value.
SingInit ==
    /\ sing_handles = [h \in Handles |-> NoObject]
    /\ sing_how = [h \in Handles |-> "unbound"]
    /\ sing_instances = 0
    /\ Singleton_value = <<>>
    /\ sing_last = [op |-> "init"]

\* What object.__new__(cls) would do: make the next instance
object_new(cls, made) == [obj |-> Instance(cls, made + 1), made |-> made + 1]

\* Singleton.__new__(cls): return cls
Singleton_new(cls, made) == [obj |-> ClassObject(cls), made |-> made]

\* copy.deepcopy(obj): a class is copied as itself, an instance as a new one
deepcopy(obj, made) ==
    IF obj.kind = "class"
    THEN [obj |-> obj, made |-> made]
    ELSE [obj |-> Instance(obj.of, made + 1), made |-> made + 1]

\* h = Singleton()
NewSingleton(h) ==
    LET new == Singleton_new("Singleton", sing_instances)
    IN  /\ sing_handles' = [sing_handles EXCEPT ![h] = new.obj]
        /\ sing_how' = [sing_how EXCEPT ![h] = "Singleton()"]
        /\ sing_instances' = new.made
        /\ sing_last' = [op |-> "Singleton()", to |-> h]
        /\ UNCHANGED Singleton_value

\* h = copy.deepcopy(from)
DeepCopy(from, h) ==
    /\ sing_handles[from] # NoObject
    /\ LET new == deepcopy(sing_handles[from], sing_instances)
       IN  /\ sing_handles' = [sing_handles EXCEPT ![h] = new.obj]
           /\ sing_instances' = new.made
    /\ sing_how' = [sing_how EXCEPT ![h] = "deepcopy"]
    /\ sing_last' = [op |-> "deepcopy", to |-> h]
    /\ UNCHANGED Singleton_value

\* h.value.append(v): the attribute is looked up on the class
AppendValue(h, v) ==
    /\ sing_handles[h] # NoObject
    /\ Len(Singleton_value) < MaxValues
    /\ Singleton_value' = Append(Singleton_value, v)
    /\ sing_last' = [op |-> "append", to |-> h]
    /\ UNCHANGED <<sing_handles, sing_how, sing_instances>>

SingNext ==
    \/ \E h \in Handles : NewSingleton(h) /\ SingFrame
    \/ \E from, h \in Handles : DeepCopy(from, h) /\ SingFrame
    \/ \E h \in Handles, v \in SingValues : AppendValue(h, v) /\ SingFrame

(***************************************************************************)
(* Builder (creational/builder.py)                                         *)
(***************************************************************************)

MaxProducts == 3
MaxExtra == 2

\* The parts the Director has a builder build, in this order
BuiltParts == <<"Part A", "Part B", "Part C">>

\* What a client may append to the parts of a product it was handed
ExtraParts == {"Part A", "Part D"}

\* parts[p] is the list self.parts of the p-th Product object ever made.
BldInit ==
    /\ parts = <<>>
    /\ bld_last = [op |-> "init"]

\* What a builder would do that kept one Product for all builders
SharedProduct(heap) ==
    IF heap = <<>>
    THEN [heap |-> <<<<>>>>, product |-> 1]
    ELSE [heap |-> heap, product |-> 1]

\* Product.__init__: a new object with parts = []
Product(heap) == [heap |-> Append(heap, <<>>), product |-> Len(heap) + 1]

\* Builder.__init__: self.product = Product()
Builder_init(heap) == Product(heap)

\* Builder.build_part_a / build_part_b / build_part_c
build_part(b, part) == [b EXCEPT !.heap[b.product] = Append(@, part)]
build_part_a(b) == build_part(b, "Part A")
build_part_b(b) == build_part(b, "Part B")
build_part_c(b) == build_part(b, "Part C")

\* Builder.get_result
get_result(b) == b.product

\* Director.construct()
Director_construct(heap) ==
    LET builder == build_part_c(build_part_b(build_part_a(Builder_init(heap))))
    IN  [heap |-> builder.heap, ret |-> get_result(builder)]

Construct ==
    /\ Len(parts) < MaxProducts
    /\ LET done == Director_construct(parts)
       IN  /\ parts' = done.heap
           /\ bld_last' = [op |-> "construct", ret |-> done.ret,
                           before |-> parts, got |-> done.heap[done.ret]]

\* product.parts.append(part), by a client on a product it was handed
AppendPart(p, part) ==
    /\ p \in 1 .. Len(parts)
    /\ Len(parts[p]) < Len(BuiltParts) + MaxExtra
    /\ parts' = [parts EXCEPT ![p] = Append(@, part)]
    /\ bld_last' = [op |-> "append", ret |-> p, before |-> parts,
                    got |-> Append(parts[p], part)]

BldNext ==
    \/ Construct /\ BldFrame
    \/ \E p \in 1 .. MaxProducts, part \in ExtraParts :
           AppendPart(p, part) /\ BldFrame

(***************************************************************************)
(* Prototype (creational/prototype.py)                                     *)
(***************************************************************************)

MaxProtos == 2
MaxMutations == 2

\* A list element is an int or a reference to another list object
IntV(n) == [t |-> "int", v |-> n]
ListV(l) == [t |-> "list", v |-> l]

\* The list literals a client constructs prototypes from, the modes it
\* clones with, and the indexes and the value it mutates lists with
Literals == {"[1, 2, 3, 4]", "[[1, 2], 3]"}
Modes == {"shallow", "referential", "deep", "other"}
Indexes == {0, 1}
NewItem == 5

\* lists[l] is the content of the l-th list object ever made; field[p] is the
\* list object that self.field of the p-th ConcretePrototype refers to;
\* proto_how[p] tells how p was made.
ProtoInit ==
    /\ lists = <<>>
    /\ field = <<>>
    /\ proto_how = <<>>
    /\ proto_muts = 0
    /\ proto_last = [op |-> "init"]

\* Evaluating a list literal makes its list objects, inner lists first
MakeLiteral(heap, lit) ==
    IF lit = "[1, 2, 3, 4]"
    THEN [heap |-> Append(heap, <<IntV(1), IntV(2), IntV(3), IntV(4)>>),
          ret |-> Len(heap) + 1]
    ELSE [heap |-> heap \o << <<IntV(1), IntV(2)>>,
                              <<ListV(Len(heap) + 1), IntV(3)>> >>,
          ret |-> Len(heap) + 2]

\* list.copy(): a new list object with the same elements
list_copy(heap, l) == [heap |-> Append(heap, heap[l]), ret |-> Len(heap) + 1]

\* copy.deepcopy(list): a new list object whose list elements are deep copies
RECURSIVE copy_deepcopy(_, _)
RECURSIVE DeepCopyItems(_, _, _)
copy_deepcopy(heap, l) ==
    LET items == DeepCopyItems(heap, heap[l], <<>>)
    IN  [heap |-> Append(items.heap, items.ret), ret |-> Len(items.heap) + 1]

DeepCopyItems(heap, items, done) ==
    IF items = <<>> THEN [heap |-> heap, ret |-> done]
    ELSE IF Head(items).t = "int"
         THEN DeepCopyItems(heap, Tail(items), Append(done, Head(items)))
         ELSE LET inner == copy_deepcopy(heap, Head(items).v)
              IN  DeepCopyItems(inner.heap, Tail(items),
                                Append(done, ListV(inner.ret)))

ShallowAsCopy(heap, l) == [heap |-> Append(heap, heap[l]), ret |-> Len(heap) + 1]
DeepAsCopy(heap, l) == [heap |-> Append(heap, heap[l]), ret |-> Len(heap) + 1]

\* The three copy strategies of clone
CloneShallow(heap, l) == [heap |-> heap, ret |-> l]
CloneReferential(heap, l) == list_copy(heap, l)
CloneDeep(heap, l) == copy_deepcopy(heap, l)

\* What a clone that took every unknown mode for 'shallow' would do
CloneAnyMode(heap, l, mode) == [made |-> [heap |-> heap, ret |-> l], raised |-> None]

\* ConcretePrototype.clone(mode): with no known mode fld is never assigned and
\* type(self)(fld) raises UnboundLocalError
ConcretePrototype_clone(heap, l, mode) ==
    IF mode = "shallow"
    THEN [made |-> CloneShallow(heap, l), raised |-> None]
    ELSE IF mode = "referential"
    THEN [made |-> CloneReferential(heap, l), raised |-> None]
    ELSE IF mode = "deep"
    THEN [made |-> CloneDeep(heap, l), raised |-> None]
    ELSE [made |-> [heap |-> heap, ret |-> l], raised |-> "UnboundLocalError"]

\* ConcretePrototype(literal)
NewPrototype(lit) ==
    /\ Len(field) < MaxProtos
    /\ LET made == MakeLiteral(lists, lit)
       IN  /\ lists' = made.heap
           /\ field' = Append(field, made.ret)
    /\ proto_how' = Append(proto_how, [from |-> 0, mode |-> "new"])
    /\ proto_last' = [op |-> "ConcretePrototype", proto |-> Len(field) + 1,
                      list |-> 0, before |-> lists, raised |-> None]
    /\ UNCHANGED proto_muts

\* p.clone(mode)
Clone(p, mode) ==
    /\ p \in 1 .. Len(field)
    /\ Len(field) < MaxProtos
    /\ LET c == ConcretePrototype_clone(lists, field[p], mode)
       IN  IF c.raised = None
           THEN /\ lists' = c.made.heap
                /\ field' = Append(field, c.made.ret)
                /\ proto_how' = Append(proto_how, [from |-> p, mode |-> mode])
                /\ proto_last' = [op |-> "clone", proto |-> Len(field) + 1,
                                  list |-> 0, before |-> lists, raised |-> None,
                                  mode |-> mode, fields |-> field]
           ELSE /\ UNCHANGED <<lists, field, proto_how>>
                /\ proto_last' = [op |-> "clone", proto |-> p,
                                  list |-> 0, before |-> lists, raised |-> c.raised,
                                  mode |-> mode, fields |-> field]
    /\ UNCHANGED proto_muts

\* What a mutation of list l through prototype p leaves behind
Mutated(op, p, l, heap, raised) ==
    /\ lists' = heap
    /\ proto_muts' = proto_muts + 1
    /\ proto_last' = [op |-> op, proto |-> p, list |-> l, before |-> lists,
                      raised |-> raised]
    /\ UNCHANGED <<field, proto_how>>

\* p.field[i] = NewItem
SetItem(p, i) ==
    /\ p \in 1 .. Len(field)
    /\ proto_muts < MaxMutations
    /\ LET l == field[p]
       IN  IF i < Len(lists[l])
           THEN Mutated("setitem", p, l,
                        [lists EXCEPT ![l][i + 1] = IntV(NewItem)], None)
           ELSE Mutated("setitem", p, 0, lists, "IndexError")

\* p.field[i][j] = NewItem
SetNested(p, i, j) ==
    /\ p \in 1 .. Len(field)
    /\ proto_muts < MaxMutations
    /\ LET l == field[p]
       IN  IF i >= Len(lists[l])
           THEN Mutated("setnested", p, 0, lists, "IndexError")
           ELSE IF ListAt(lists[l], i).t = "int"
           THEN Mutated("setnested", p, 0, lists, "TypeError")
           ELSE LET n == ListAt(lists[l], i).v
                IN  IF j < Len(lists[n])
                    THEN Mutated("setnested", p, n,
                                 [lists EXCEPT ![n][j + 1] = IntV(NewItem)], None)
                    ELSE Mutated("setnested", p, 0, lists, "IndexError")

\* p.field.append(NewItem)
AppendItem(p) ==
    /\ p \in 1 .. Len(field)
    /\ proto_muts < MaxMutations
    /\ Mutated("append", p, field[p],
               [lists EXCEPT ![field[p]] = Append(@, IntV(NewItem))], None)

\* p.field.pop()
PopItem(p) ==
    /\ p \in 1 .. Len(field)
    /\ proto_muts < MaxMutations
    /\ LET l == field[p]
       IN  IF lists[l] # <<>>
           THEN Mutated("pop", p, l,
                        [lists EXCEPT ![l] = SubSeq(@, 1, Len(@) - 1)], None)
           ELSE Mutated("pop", p, 0, lists, "IndexError")

ProtoNext ==
    \/ \E lit \in Literals : NewPrototype(lit) /\ ProtoFrame
    \/ \E p \in 1 .. MaxProtos, mode \in Modes : Clone(p, mode) /\ ProtoFrame
    \/ \E p \in 1 .. MaxProtos, i \in Indexes : SetItem(p, i) /\ ProtoFrame
    \/ \E p \in 1 .. MaxProtos, i, j \in Indexes : SetNested(p, i, j) /\ ProtoFrame
    \/ \E p \in 1 .. MaxProtos : AppendItem(p) /\ ProtoFrame
    \/ \E p \in 1 .. MaxProtos : PopItem(p) /\ ProtoFrame

(***************************************************************************)
(* Abstract factory (creational/abstract_factory.py)                       *)
(***************************************************************************)

MaxKeyLen == 3
MaxCreated == 2

\* A str is the sequence of its characters; keys that are no str carry none
Str(chars) == [ty |-> "str", s |-> chars]
Letters == {"a", "b", "c", "d"}
Keys == {Str(chars) : chars \in SeqsUpTo(Letters, MaxKeyLen)}
            \cup {[ty |-> "NoneType", s |-> <<>>], [ty |-> "int", s |-> <<>>]}

\* af_products[k] is the class of the k-th product object ever made.
AfInit ==
    /\ af_products = <<>>
    /\ af_last = [op |-> "init"]

\* key in [...]
InList(key, list) == \E k \in 1 .. Len(list) : list[k] = key

FirstLetter(key) == Str(<<key.s[1]>>)

\* factory[1]
SecondLetter(key) == Str(<<key.s[2]>>)

\* FactoryA.create_object(product_property): the class to instantiate, or None
FactoryA_create_object(product_property) ==
    IF product_property = Str(<<"a">>) THEN "ConcreteProductA"
    ELSE IF product_property = Str(<<"b">>) THEN "ConcreteProductB"
    ELSE IF product_property = Str(<<"c">>) THEN "ConcreteProductC"
    ELSE None

\* FactoryB.create_object and FactoryC.create_object have the same body
FactoryB_create_object(product_property) ==
    IF product_property = Str(<<"a">>) THEN "ConcreteProductA"
    ELSE IF product_property = Str(<<"b">>) THEN "ConcreteProductB"
    ELSE IF product_property = Str(<<"c">>) THEN "ConcreteProductC"
    ELSE None

FactoryC_create_object(product_property) ==
    IF product_property = Str(<<"a">>) THEN "ConcreteProductA"
    ELSE IF product_property = Str(<<"b">>) THEN "ConcreteProductB"
    ELSE IF product_property = Str(<<"c">>) THEN "ConcreteProductC"
    ELSE None

\* AbstractFactory.create_object(factory): the class to instantiate, or None
AbstractFactory_create_object(factory) ==
    IF InList(factory, <<Str(<<"a", "a">>), Str(<<"a", "b">>), Str(<<"a", "c">>)>>)
    THEN FactoryA_create_object(SecondLetter(factory))
    ELSE IF InList(factory, <<Str(<<"b", "a">>), Str(<<"b", "b">>), Str(<<"b", "c">>)>>)
    THEN FactoryB_create_object(SecondLetter(factory))
    ELSE IF InList(factory, <<Str(<<"c", "a">>), Str(<<"c", "b">>), Str(<<"c", "c">>)>>)
    THEN FactoryC_create_object(SecondLetter(factory))
    ELSE None

\* AbstractFactory.create_object(key): ret is the new product object, 0 for None
CreateObject(key) ==
    LET class == AbstractFactory_create_object(key)
    IN  IF class = None
        THEN /\ af_last' = [op |-> "create_object", key |-> key, ret |-> 0,
                            before |-> af_products]
             /\ UNCHANGED af_products
        ELSE /\ Len(af_products) < MaxCreated
             /\ af_products' = Append(af_products, class)
             /\ af_last' = [op |-> "create_object", key |-> key,
                            ret |-> Len(af_products) + 1, before |-> af_products]

AfNext ==
    \E key \in Keys : CreateObject(key) /\ AfFrame

(***************************************************************************)
(* Interpreter (behavioral/interpreter.py)                                 *)
(***************************************************************************)

\* The longest sentence, in tokens
MaxTokens == 9

\* The tokens of a sentence: a str is the sequence of its characters
NumberTokens == {<<"5">>, <<"4">>, <<"3">>, <<"7">>, <<"2">>}
OpTokens == {<<"+">>, <<"-">>}

\* The sentences with k operators: number, operator, number, ..., number
Sentences(k) ==
    {[i \in 1 .. 2 * k + 1 |-> IF i % 2 = 1 THEN nums[(i + 1) \div 2] ELSE ops[i \div 2]] :
        nums \in [1 .. k + 1 -> NumberTokens], ops \in [1 .. k -> OpTokens]}

\* ast_root holds the root once the tree is built; int_rets holds the values
\* of the last two interpret() calls.
InterpInit ==
    /\ tokens = <<>>
    /\ ast_root = <<>>
    /\ int_rets = <<>>

\* int(value) of a str of decimal digits
DigitValue(c) ==
    CASE c = "0" -> 0 [] c = "1" -> 1 [] c = "2" -> 2 [] c = "3" -> 3
      [] c = "4" -> 4 [] c = "5" -> 5 [] c = "6" -> 6 [] c = "7" -> 7
      [] c = "8" -> 8 [] c = "9" -> 9

RECURSIVE int(_)
int(chars) ==
    IF chars = <<>> THEN 0
    ELSE 10 * int(SubSeq(chars, 1, Len(chars) - 1)) + DigitValue(chars[Len(chars)])

\* Number(value), Add(left, right), Subtract(left, right)
Number(chars) == [class |-> "Number", value |-> int(chars)]
Add(left, right) == [class |-> "Add", left |-> left, right |-> right]
Subtract(left, right) == [class |-> "Subtract", left |-> left, right |-> right]

Subtract_reversed(left, right) == right - left

\* The results of Add.interpret and Subtract.interpret from those of the operands
Add_interpret(left, right) == left + right
Subtract_interpret(left, right) == left - right

\* node.interpret()
RECURSIVE interpret(_)
interpret(node) ==
    IF node.class = "Number" THEN node.value
    ELSE IF node.class = "Add"
    THEN Add_interpret(interpret(node.left), interpret(node.right))
    ELSE Subtract_interpret(interpret(node.left), interpret(node.right))

\* The test's tree: ast[0] joins the first two numbers, ast[k] joins ast[k-1]
\* and the next number, each by the class its operator token names; the last
\* row is the root. AstRow(toks, k) is row k - 1 of the list ast.
NodeFor(op, left, right) ==
    IF op = <<"+">> THEN Add(left, right) ELSE Subtract(left, right)

RECURSIVE AstRow(_, _)
AstRow(toks, k) ==
    IF k = 1
    THEN NodeFor(ListAt(toks, 1), Number(ListAt(toks, 0)), Number(ListAt(toks, 2)))
    ELSE NodeFor(ListAt(toks, 2 * k - 1), AstRow(toks, k - 1),
                 Number(ListAt(toks, 2 * k)))

\* sentence.split(" ") and the construction of the tree up to ast.pop()
BuildAst ==
    /\ tokens = <<>>
    /\ \E k \in 1 .. (MaxTokens - 1) \div 2 : \E toks \in Sentences(k) :
           /\ tokens' = toks
           /\ ast_root' = <<AstRow(toks, k)>>
    /\ UNCHANGED int_rets

\* ast_root.interpret()
Interpret ==
    /\ ast_root # <<>>
    /\ int_rets' = IF int_rets = <<>>
                   THEN <<interpret(ast_root[1])>>
                   ELSE <<int_rets[Len(int_rets)], interpret(ast_root[1])>>
    /\ UNCHANGED <<tokens, ast_root>>

InterpNext ==
    \/ BuildAst /\ IntFrame
    \/ Interpret /\ IntFrame

(***************************************************************************)
(* Template method (behavioral/template_method.py)                         *)
(***************************************************************************)

MaxRuns == 5

TemplateClasses == {"AbstractClass", "ConcreteClassA", "ConcreteClassB"}

\* console is what has been printed so far; tm_runs counts template_method calls.
TmInit ==
    /\ console = <<>>
    /\ tm_runs = 0
    /\ tm_last = [op |-> "init"]

\* The operations a class body defines itself
Defines(class) ==
    CASE class = "AbstractClass" -> {"operation_01", "operation_02", "operation_03"}
      [] class = "ConcreteClassA" -> {"operation_03"}
      [] class = "ConcreteClassB" -> {"operation_01", "operation_02", "operation_03"}

BaseOnly(cls, operation) == "AbstractClass"

\* cls.operation: the class whose definition the attribute lookup finds,
\* cls itself before its base AbstractClass
Resolve(cls, operation) ==
    IF operation \in Defines(cls) THEN cls ELSE "AbstractClass"

\* What the body of class.operation prints
Body(class, operation) ==
    CASE class = "AbstractClass" /\ operation = "operation_01" -> <<>>
      [] class = "AbstractClass" /\ operation = "operation_02" ->
            <<"Step Three is a hook that prints this line by default.">>
      [] class = "AbstractClass" /\ operation = "operation_03" -> <<>>
      [] class = "ConcreteClassA" /\ operation = "operation_03" ->
            <<"Class A : Step Three (overridden)">>
      [] class = "ConcreteClassB" /\ operation = "operation_01" ->
            <<"Class B : Step One (overridden)">>
      [] class = "ConcreteClassB" /\ operation = "operation_02" ->
            <<"Class B : Step Two (overridden)">>
      [] class = "ConcreteClassB" /\ operation = "operation_03" ->
            <<"Class B : Step Three (overridden)">>

\* One call cls.operation(): which body ran and what it printed
Call(cls, operation) ==
    [operation |-> operation, of |-> Resolve(cls, operation),
     printed |-> Body(Resolve(cls, operation), operation)]

\* AbstractClass.template_method(cls): the three calls, in program order
AbstractClass_template_method(cls) ==
    <<Call(cls, "operation_01"), Call(cls, "operation_02"), Call(cls, "operation_03")>>

RECURSIVE Printed(_)
Printed(calls) ==
    IF calls = <<>> THEN <<>> ELSE Head(calls).printed \o Printed(Tail(calls))

\* cls.template_method(), on the class or on an instance of it
TemplateMethod(cls) ==
    /\ tm_runs < MaxRuns
    /\ tm_runs' = tm_runs + 1
    /\ LET calls == AbstractClass_template_method(cls)
       IN  /\ console' = console \o Printed(calls)
           /\ tm_last' = [op |-> "template_method", cls |-> cls, calls |-> calls,
                          before |-> console]

TmNext ==
    \E cls \in TemplateClasses : TemplateMethod(cls) /\ TmFrame

(***************************************************************************)
(* State (behavioral/state.py)                                             *)
(***************************************************************************)

MaxStateRequests == 4

\* The three state objects Context.__init__ makes, and their classes
StateObjects == <<"state_a", "state_b", "state_c">>

StateClass(obj) ==
    CASE obj = "state_a" -> "ConcreteStateA"
      [] obj = "state_b" -> "ConcreteStateB"
      [] obj = "state_c" -> "ConcreteStateC"

\* ConcreteStateA / ConcreteStateB / ConcreteStateC.__str__
State_str(obj) ==
    CASE StateClass(obj) = "ConcreteStateA" -> "State A"
      [] StateClass(obj) = "ConcreteStateB" -> "State B"
      [] StateClass(obj) = "ConcreteStateC" -> "State C"

\* What a client passes to change_state
ChangeStateArgs == Range(StateObjects) \cup {"some other object"}

\* Context.__init__; the attribute state does not exist before change_state,
\* and st_requests counts the request() calls.
StInit ==
    /\ state_handles = StateObjects
    /\ handle = None
    /\ state = "unset"
    /\ st_requests = 0
    /\ st_last = [op |-> "init"]

\* random.randint(0, 2)
RandomIndexes == 0 .. 2

\* What a change_state that switched the handle would leave in it
SwitchHandle(old, new) == new

\* Context.change_state(state) assigns self.state only: handle stays
HandleAfterChange(old, new) == old

\* Context.request(), with r the number random.randint(0, 2) returns
Context_request(r) ==
    /\ st_requests < MaxStateRequests
    /\ handle' = ListAt(state_handles, r)
    /\ st_requests' = st_requests + 1
    /\ st_last' = [op |-> "request", ret |-> ListAt(state_handles, r),
                   before |-> handle]
    /\ UNCHANGED <<state_handles, state>>

\* Context.change_state(s)
Context_change_state(s) ==
    /\ state' = s
    /\ handle' = HandleAfterChange(handle, s)
    /\ st_last' = [op |-> "change_state", ret |-> None, before |-> handle]
    /\ UNCHANGED <<state_handles, st_requests>>

StNext ==
    \/ \E r \in RandomIndexes : Context_request(r) /\ StFrame
    \/ \E s \in ChangeStateArgs : Context_change_state(s) /\ StFrame

(***************************************************************************)
(* Facade (structural/facade.py)                                           *)
(***************************************************************************)

MaxArgLen == 3
MaxFacadeCalls == 2

\* A Python value: its type, the identity of its object (0 for the values
\* that have none to speak of) and its content
PyValue(ty, id, items) == [ty |-> ty, id |-> id, items |-> items]

\* The values a client passes: ints, None, and list objects
FacadeValues ==
    {PyValue("int", 0, <<n>>) : n \in {0, 124}}
        \cup {PyValue("NoneType", 0, <<>>)}
        \cup {PyValue("list", 1, items) : items \in SeqsUpTo({1, 2, 3}, MaxArgLen)}

\* fac_calls counts the calls made through the facade.
FacInit ==
    /\ fac_calls = 0
    /\ fac_last = [op |-> "init"]

\* SubSystemClassA.method(), SubSystemClassB.method(value), SubSystemClassC.method(value)
SubSystemClassA_method == PyValue("str", 0, <<"subsystem_A">>)
SubSystemClassB_method(v) == v
SubSystemClassC_method(v) == v

\* What a facade that handed back a copy of its argument would return
CopyOf(v) == PyValue(v.ty, 0, v.items)

\* Facade.sub_system_class_a / sub_system_class_b / method_c / sub_system_class_c
Facade_sub_system_class_a == SubSystemClassA_method
Facade_sub_system_class_b(v) == SubSystemClassB_method(v)
Facade_method_c(v) == SubSystemClassC_method(v)
Facade_sub_system_class_c(v) == SubSystemClassC_method(v)

Called(op, arg, ret) ==
    /\ fac_calls < MaxFacadeCalls
    /\ fac_calls' = fac_calls + 1
    /\ fac_last' = [op |-> op, arg |-> arg, ret |-> ret]

CallA == Called("sub_system_class_a", PyValue("NoneType", 0, <<>>), Facade_sub_system_class_a)
CallB(v) == Called("sub_system_class_b", v, Facade_sub_system_class_b(v))
CallMethodC(v) == Called("method_c", v, Facade_method_c(v))
CallC(v) == Called("sub_system_class_c", v, Facade_sub_system_class_c(v))

FacNext ==
    \/ CallA /\ FacFrame
    \/ \E v \in FacadeValues : CallB(v) /\ FacFrame
    \/ \E v \in FacadeValues : CallMethodC(v) /\ FacFrame
    \/ \E v \in FacadeValues : CallC(v) /\ FacFrame

(***************************************************************************)
(* Decorator (structural/decorator.py)                                     *)
(***************************************************************************)

MaxDecObjects == 4

\* dec_objects[o] is the o-th object made: its class and, for a Decorator,
\* the object self.object refers to (0 for a ConcreteComponent).
DecInit ==
    /\ dec_objects = <<>>
    /\ dec_last = [op |-> "init"]

\* ConcreteComponent.decorated_method()
ConcreteComponent_decorated_method == "Component Intrinsic Method"

Undecorated(inner) == inner

\* Decorator.decorated_method(), from the result of self.object.decorated_method()
Decorator_decorated_method(inner) == "Decorator method(" \o inner \o ")"

\* o.decorated_method()
RECURSIVE decorated_method(_, _)
decorated_method(objects, o) ==
    IF objects[o].class = "ConcreteComponent"
    THEN ConcreteComponent_decorated_method
    ELSE Decorator_decorated_method(decorated_method(objects, objects[o].object))

\* ConcreteComponent()
NewComponent ==
    /\ Len(dec_objects) < MaxDecObjects
    /\ dec_objects' = Append(dec_objects, [class |-> "ConcreteComponent", object |-> 0])
    /\ dec_last' = [op |-> "ConcreteComponent", obj |-> Len(dec_objects) + 1]

\* Decorator(obj)
NewDecorator(obj) ==
    /\ Len(dec_objects) < MaxDecObjects
    /\ obj \in 1 .. Len(dec_objects)
    /\ dec_objects' = Append(dec_objects, [class |-> "Decorator", object |-> obj])
    /\ dec_last' = [op |-> "Decorator", obj |-> Len(dec_objects) + 1]

\* o.decorated_method(), called by a client
DecoratedMethod(o) ==
    /\ o \in 1 .. Len(dec_objects)
    /\ dec_last' = [op |-> "decorated_method", obj |-> o,
                    ret |-> decorated_method(dec_objects, o),
                    before |-> dec_objects]
    /\ UNCHANGED dec_objects

DecNext ==
    \/ NewComponent /\ DecFrame
    \/ \E obj \in 1 .. MaxDecObjects : NewDecorator(obj) /\ DecFrame
    \/ \E o \in 1 .. MaxDecObjects : DecoratedMethod(o) /\ DecFrame

(***************************************************************************)
(* Mediator (behavioral/mediator.py)                                       *)
(***************************************************************************)

MaxMediatorCalls == 3

MediatorMethods == {"colleague_01_method", "colleague_02_method"}
Colleagues == {"Colleague1", "Colleague2"}

\* The outcome of a call: a returned value, or an exception and no value
Returned(v) == [ret |-> v, raised |-> None]
Raised(exc) == [ret |-> None, raised |-> exc]

\* med_calls is the history of calls made by the client, as <<receiver, method>>;
\* med_reached is the set of <<colleague, method>> bodies that ever ran.
MedInit ==
    /\ med_calls = <<>>
    /\ med_reached = {}
    /\ med_last = [op |-> "init"]

\* Colleague1.colleague_01_method / colleague_02_method
Colleague1_method(method) ==
    IF method = "colleague_01_method"
    THEN Returned("Resonse form the Colleague 01")
    ELSE Raised("NotImplementedError")

\* What a Colleague2 that answered both methods would do
AnswersBoth(method) == Returned("Resonse form the Colleague 02")

\* Colleague2.colleague_01_method / colleague_02_method
Colleague2_method(method) ==
    IF method = "colleague_01_method"
    THEN Raised("NotImplementedError")
    ELSE Returned("Resonse form the Colleague 02")

Colleague_method(colleague, method) ==
    IF colleague = "Colleague1" THEN Colleague1_method(method)
    ELSE Colleague2_method(method)

\* What a mediator that sent every message to Colleague1 would pick
AlwaysColleague1(method) == "Colleague1"

\* Mediator.colleague_01_method uses self.colleague_01, colleague_02_method
\* uses self.colleague_02
MediatorTarget(method) ==
    IF method = "colleague_01_method" THEN "Colleague1" ELSE "Colleague2"

\* mediator.colleague_01_method() / mediator.colleague_02_method()
MediatorCall(method) ==
    /\ Len(med_calls) < MaxMediatorCalls
    /\ med_calls' = Append(med_calls, <<"Mediator", method>>)
    /\ med_reached' = med_reached \cup {<<MediatorTarget(method), method>>}
    /\ med_last' = [op |-> "mediator", method |-> method,
                    out |-> Colleague_method(MediatorTarget(method), method)]

\* colleague.colleague_01_method() / colleague.colleague_02_method(), called
\* on a colleague directly
ColleagueCall(colleague, method) ==
    /\ Len(med_calls) < MaxMediatorCalls
    /\ med_calls' = Append(med_calls, <<colleague, method>>)
    /\ med_reached' = med_reached \cup {<<colleague, method>>}
    /\ med_last' = [op |-> "colleague", colleague |-> colleague, method |-> method,
                    out |-> Colleague_method(colleague, method)]

MedNext ==
    \/ \E method \in MediatorMethods : MediatorCall(method) /\ MedFrame
    \/ \E colleague \in Colleagues, method \in MediatorMethods :
           ColleagueCall(colleague, method) /\ MedFrame

(***************************************************************************)
(* Specifications                                                          *)
(***************************************************************************)

Init ==
    /\ IterInit /\ MemInit /\ CompInit /\ ObsInit /\ ProxyInit
    /\ FwInit /\ CmdInit /\ ChainInit /\ VisInit /\ AdInit /\ SingInit
    /\ BldInit /\ ProtoInit /\ AfInit /\ InterpInit /\ TmInit
    /\ StInit /\ FacInit /\ DecInit /\ MedInit

SpecIterator  == Init /\ [][IterNext]_vars
SpecMemento   == Init /\ [][MemNext]_vars
SpecComposite == Init /\ [][CompNext]_vars
SpecObserver  == Init /\ [][ObsNext]_vars
SpecProxy     == Init /\ [][ProxyNext]_vars
SpecFlyweight == Init /\ [][FwNext]_vars
SpecCommand   == Init /\ [][CmdNext]_vars
SpecChain     == Init /\ [][ChainNext]_vars /\ ChainFair
SpecVisitor   == Init /\ [][VisNext]_vars
SpecAdapter   == Init /\ [][AdNext]_vars
SpecSingleton == Init /\ [][SingNext]_vars
SpecBuilder   == Init /\ [][BldNext]_vars
SpecPrototype == Init /\ [][ProtoNext]_vars
SpecAbstractFactory == Init /\ [][AfNext]_vars
SpecInterpreter == Init /\ [][InterpNext]_vars
SpecTemplate  == Init /\ [][TmNext]_vars
SpecState     == Init /\ [][StNext]_vars
SpecFacade    == Init /\ [][FacNext]_vars
SpecDecorator == Init /\ [][DecNext]_vars
SpecMediator  == Init /\ [][MedNext]_vars

(***************************************************************************)
(* C1: the k-th next() call (k <= n) returns the k-th element in insertion *)
(* order, every later next() returns None, and has_next() is true exactly  *)
(* while fewer than n elements have been returned.                         *)
(***************************************************************************)
ElementsReturned == Cardinality({k \in 1 .. Len(iter_rets) : k <= Len(aggregates)})

C1_Iterator ==
    iter_built =>
        /\ \A k \in 1 .. Len(iter_rets) :
               iter_rets[k] = IF k <= Len(aggregates) THEN aggregates[k] ELSE None
        /\ has_next(index, aggregates) = (ElementsReturned < Len(aggregates))
        /\ iter_hn # <<>> => iter_hn[1].res = (iter_hn[1].at < Len(aggregates))

C1_Witness ==
    /\ iter_built
    /\ Len(aggregates) = 3
    /\ Len(iter_rets) = 5
    /\ iter_hn # <<>> /\ iter_hn[1].at = 4 /\ iter_hn[1].res = FALSE

(***************************************************************************)
(* C2: restore(i) with 0 <= i < number of create() calls sets the          *)
(* originator's state to the value it had when the (i+1)-th create() ran.  *)
(***************************************************************************)
C2_Restore ==
    (mem_last.op = "restore" /\ 0 <= mem_last.i /\ mem_last.i < Len(mem_taken)) =>
        /\ mem_last.raised = None
        /\ _state = mem_taken[mem_last.i + 1]

C2_Witness ==
    /\ mem_last.op = "restore" /\ mem_last.i = 1
    /\ mem_taken = <<"State #2", "State #3", "State #1">>
    /\ _state = "State #3"

(***************************************************************************)
(* C3: Composite.attach(component), for a component that is unattached or  *)
(* attached to another composite, raises nothing and leaves the component  *)
(* out of its previous parent's components, with reference_to_parent this  *)
(* composite and as the last entry of this composite's components.         *)
(***************************************************************************)
C3_AttachCompletes ==
    comp_last.op = "attach" =>
        LET p == comp_last.parent
            c == comp_last.child
        IN  /\ comp_last.raised = None
            /\ reference_to_parent[c] = p
            /\ components[p] # <<>> /\ components[p][Len(components[p])] = c
            /\ (comp_last.was \in Composites \ {p}) => c \notin Range(components[comp_last.was])

(***************************************************************************)
(* C4: notify(args) calls update(args) exactly once on every observer    *)
(* that is subscribed at the time of the call and on no other observer,    *)
(* with the arguments unchanged.                                           *)
(***************************************************************************)
C4_Notify ==
    obs_last.op = "notify" =>
        \A o \in Observers :
            obs_last.got[o] = IF obs_evt[o] = "subscribed" THEN <<obs_last.args>> ELSE <<>>

C4_Witness ==
    /\ obs_last.op = "notify"
    /\ obs_last.args = <<"First notification", "[1, 2, 3]">>
    /\ obs_evt = [o \in Observers |-> IF o = "B" THEN "unsubscribed"
                                      ELSE IF o = "A" THEN "subscribed" ELSE "never"]
    /\ obs_last.got["A"] = <<obs_last.args>>
    /\ obs_last.got["B"] = <<>>

(***************************************************************************)
(* C5: a proxy's first request() fetches the data from its RealSubject and *)
(* stores it; later requests return the stored data and query the real     *)
(* subject no more (at most one query per proxy); every request() returns  *)
(* [1, 2, 3].                                                              *)
(***************************************************************************)
C5_Proxy ==
    /\ \A p \in Proxies :
          /\ real_calls[p] = IF requests[p] = 0 THEN 0 ELSE 1
          /\ requests[p] > 0 => enormous_data[p] = <<1, 2, 3>>
    /\ proxy_last.op = "request" =>
          /\ proxy_last.data = <<1, 2, 3>>
          /\ (proxy_last.from = "cache") => requests[proxy_last.proxy] > 1

C5_Witness ==
    /\ proxy_last.op = "request" /\ proxy_last.proxy = "p1" /\ proxy_last.from = "cache"
    /\ requests["p1"] = 3 /\ real_calls["p1"] = 1
    /\ requests["p2"] = 1

(***************************************************************************)
(* C6: after any sequence of get_flyweight calls the cache holds exactly   *)
(* one Flyweight per distinct code requested so far, get_count() is the    *)
(* number of distinct codes (5 after "abracadabra"), and two calls with the *)
(* same code return the same Flyweight instance.                           *)
(***************************************************************************)
C6_Flyweight ==
    /\ DOMAIN _flyweights = fw_asked
    /\ get_count = Cardinality(fw_asked)
    /\ Len(fw_objs) = Cardinality(fw_asked)
    /\ \A k \in fw_asked :
          /\ fw_got[k] = {_flyweights[k]}
          /\ fw_objs[_flyweights[k]].code = k
    /\ \A j, k \in fw_asked : _flyweights[j] = _flyweights[k] => j = k
    /\ fw_last.op = "ouptut" => fw_last.ret = fw_last.codes

C6_Witness ==
    /\ fw_last.op = "ouptut" /\ fw_last.codes = Abracadabra /\ fw_last.ret = Abracadabra
    /\ fw_asked = {"a", "b", "r", "c", "d"}
    /\ get_count = 5
    /\ _flyweights["r"] = 3

(***************************************************************************)
(* C7: execute_commands(name) with a name that was never registered prints *)
(* 'not recognised' and nothing else happens: no error is raised, no       *)
(* command runs on the receiver, the registry is unchanged.                *)
(***************************************************************************)
C7_Unregistered ==
    (cmd_last.op = "execute" /\ cmd_latest[cmd_last.name] = None) =>
        /\ cmd_last.res.raised = None
        /\ cmd_last.res.ran = <<>>
        /\ cmd_last.res.out = <<"Command [", cmd_last.name, "] not recognised">>
        /\ _commands = cmd_last.before

C7_Witness ==
    /\ cmd_last.op = "execute" /\ cmd_last.name = "3"
    /\ cmd_latest = [n \in Names |-> IF n = "1" THEN "command_1"
                                     ELSE IF n = "2" THEN "command_2" ELSE None]
    /\ cmd_last.res.out = <<"Command [", "3", "] not recognised">>

(***************************************************************************)
(* C8: the invoker's table holds exactly the names registered so far, each *)
(* mapped to the command most recently registered under it, and            *)
(* execute_commands(name) for such a name runs that command's receiver     *)
(* operation exactly once and nothing else.                                *)
(***************************************************************************)
C8_Registry ==
    /\ DOMAIN _commands = {n \in Names : cmd_latest[n] # None}
    /\ \A n \in DOMAIN _commands : _commands[n] = cmd_latest[n]
    /\ (cmd_last.op = "execute" /\ cmd_latest[cmd_last.name] # None) =>
          /\ cmd_last.res.raised = None
          /\ cmd_last.res.out = <<>>
          /\ cmd_last.res.ran =
                <<IF ClassOf(cmd_latest[cmd_last.name]) = "Command1"
                  THEN "run_command_1" ELSE "run_command_2">>

C8_Witness ==
    /\ cmd_last.op = "execute" /\ cmd_last.name = "2"
    /\ cmd_last.res.ran = <<"run_command_2">>
    /\ _commands = [n \in {"1", "2"} |-> IF n = "1" THEN "command_1b" ELSE "command_2"]
    /\ cmd_latest["1"] = "command_1b"

(***************************************************************************)
(* C9: Chain.start(payload) terminates: with every random branch that is   *)
(* offered again and again taken in the end, a started chain stops         *)
(* forwarding and a payload is returned to the caller of start().          *)
(***************************************************************************)
C9_Terminates ==
    (chain_pc \in {"Successor1", "Successor2"}) ~> (chain_pc = "done" /\ chain_out # <<>>)

C9_Witness ==
    /\ chain_pc = "done"
    /\ chain_out = <<[ty |-> "float", n |-> 3, e |-> 2]>>

(***************************************************************************)
(* C10: started with an integer, the payload handed to every handler and   *)
(* the payload returned by Chain.start is an integer.                      *)
(***************************************************************************)
C10_PayloadStaysInt ==
    /\ chain_pc \in {"Successor1", "Successor2"} => payload.ty = "int"
    /\ chain_pc = "done" => chain_out[1].ty = "int"

(***************************************************************************)
(* C11: a hierarchy of Elements can be built through the parent argument,  *)
(* and accept(visitor) on it visits every element exactly once, so that    *)
(* after accept(CalculateElementsTotalsVisitor) total_value is the sum of  *)
(* the values of all elements (1000 for A=100, B=200, C=300, D=400).       *)
(***************************************************************************)
RECURSIVE SumAsked(_)
SumAsked(names) ==
    IF names = {} THEN 0
    ELSE LET n == CHOOSE x \in names : TRUE
         IN  vis_asked[n] + SumAsked(names \ {n})

C11_VisitAll ==
    /\ vis_last.op = "Element" =>
          /\ vis_last.raised = None
          /\ vis_last.name \in DOMAIN vis_elements
    /\ vis_last.op = "accept" =>
          /\ {vis_last.visited[k] : k \in 1 .. Len(vis_last.visited)}
                = {n \in ElementNames : vis_asked[n] # 0}
          /\ vis_last.visitor = "CalculateElementsTotalsVisitor" =>
                total_value = SumAsked(ElementNames)

(***************************************************************************)
(* C12: adapter.method_a() calls method_b() of the wrapped ClassB and      *)
(* returns its result, the string 'method_b()'.                            *)
(***************************************************************************)
C12_Delegates ==
    ad_last.op = "method_a" =>
        /\ method_b_calls[ad_last.adapter] > 0
        /\ ad_last.ret = "method_b()"

(***************************************************************************)
(* C13: every handle obtained from Singleton() or from copy.deepcopy of a  *)
(* handle is the same object; no sequence of constructions and copies      *)
(* makes a second instance.                                                *)
(***************************************************************************)
C13_OneInstance ==
    /\ \A h1, h2 \in Handles :
          (sing_handles[h1] # NoObject /\ sing_handles[h2] # NoObject)
              => sing_handles[h1] = sing_handles[h2]
    /\ sing_instances = 0

C13_Witness ==
    /\ \A h \in Handles : sing_handles[h] # NoObject
    /\ \E h1, h2 \in Handles :
          sing_how[h1] = "Singleton()" /\ sing_how[h2] = "deepcopy"

(***************************************************************************)
(* C14: every Director.construct(), whatever was constructed or appended   *)
(* before, returns a new product whose parts are exactly                   *)
(* ['Part A', 'Part B', 'Part C']; earlier products are left as they were. *)
(***************************************************************************)
C14_Construct ==
    bld_last.op = "construct" =>
        /\ bld_last.got = <<"Part A", "Part B", "Part C">>
        /\ bld_last.ret = Len(bld_last.before) + 1
        /\ \A p \in 1 .. Len(bld_last.before) : parts[p] = bld_last.before[p]

C14_Witness ==
    /\ bld_last.op = "construct"
    /\ bld_last.ret > 1
    /\ \E p \in 1 .. Len(bld_last.before) : Len(parts[p]) > Len(BuiltParts)

(***************************************************************************)
(* C15: root.method() on the root of a tree built with attach() prints the *)
(* root and then, recursively and in attachment order, every component of  *)
(* the tree exactly once (the preorder of the tree), and terminates.       *)
(***************************************************************************)
AskedTree(root) ==
    Composite_method([ref |-> reference_to_parent, comps |-> comp_asked],
                     root, Cardinality(Composites))

C15_Preorder ==
    (comp_last.op = "method" /\ "RecursionError" \notin Range(AskedTree(comp_last.child)))
        => comp_last.printed = AskedTree(comp_last.child)

(***************************************************************************)
(* C16: clone() in the default 'shallow' mode returns a new object whose   *)
(* field is the very same list as the original's: the fields are equal at  *)
(* all times, and an element set through the clone shows in the original   *)
(* ([1, 2, 3, 4] reads [1, 5, 3, 4] after clone.field[1] = 5).             *)
(***************************************************************************)
\* The value of list l: ints stay, list elements are replaced by their value
RECURSIVE ValueOf(_, _)
ValueOf(heap, l) ==
    [k \in 1 .. Len(heap[l]) |->
        IF heap[l][k].t = "int" THEN heap[l][k].v
        ELSE ValueOf(heap, heap[l][k].v)]

ShallowClones == {p \in 1 .. Len(field) : proto_how[p].mode = "shallow"}

C16_Shallow ==
    \A p \in ShallowClones :
        /\ p # proto_how[p].from
        /\ field[p] = field[proto_how[p].from]
        /\ ValueOf(lists, field[p]) = ValueOf(lists, field[proto_how[p].from])

C16_Witness ==
    /\ proto_last.op = "setitem"
    /\ proto_last.proto \in ShallowClones
    /\ ValueOf(lists, field[proto_how[proto_last.proto].from]) = <<1, 5, 3, 4>>

(***************************************************************************)
(* C17: a 'referential' clone has a top-level list of its own, holding the *)
(* same elements: setting, appending or removing a top-level element of    *)
(* one list is not seen in the other, while nested lists are shared. A     *)
(* 'deep' clone shares no list with its original: no mutation at any depth *)
(* of one is visible in the other.                                         *)
(***************************************************************************)
\* The list objects reachable from list l
RECURSIVE Reach(_, _)
Reach(heap, l) ==
    {l} \cup UNION {Reach(heap, heap[l][k].v) :
                       k \in {j \in 1 .. Len(heap[l]) : heap[l][j].t = "list"}}

ClonesBy(mode) == {p \in 1 .. Len(field) : proto_how[p].mode = mode}

\* The last operation was the clone call that returned p
Cloned(p) ==
    proto_last.op = "clone" /\ proto_last.raised = None /\ proto_last.proto = p

\* The last operation changed list object l
Changed(l) == proto_last.raised = None /\ proto_last.list = l

ReferentialClone(p, s) ==
    /\ p # s
    /\ field[p] # field[s]
    /\ Cloned(p) => lists[field[p]] = lists[field[s]]
    /\ Changed(field[p]) => lists[field[s]] = proto_last.before[field[s]]
    /\ Changed(field[s]) => lists[field[p]] = proto_last.before[field[p]]

DeepClone(p, s) ==
    /\ p # s
    /\ Reach(lists, field[p]) \cap Reach(lists, field[s]) = {}
    /\ Cloned(p) => ValueOf(lists, field[p]) = ValueOf(lists, field[s])
    /\ (\E l \in Reach(lists, field[p]) : Changed(l))
          => ValueOf(lists, field[s]) = ValueOf(proto_last.before, field[s])
    /\ (\E l \in Reach(lists, field[s]) : Changed(l))
          => ValueOf(lists, field[p]) = ValueOf(proto_last.before, field[p])

C17_Independent ==
    /\ \A p \in ClonesBy("referential") : ReferentialClone(p, proto_how[p].from)
    /\ \A p \in ClonesBy("deep") : DeepClone(p, proto_how[p].from)

C17_Witness ==
    /\ proto_last.op = "setnested"
    /\ proto_last.raised = None
    /\ proto_last.proto \in ClonesBy("deep")
    /\ ValueOf(lists, field[proto_last.proto]) = <<(<<5, 2>>), 3>>
    /\ ValueOf(lists, field[proto_how[proto_last.proto].from]) = <<(<<1, 2>>), 3>>

(***************************************************************************)
(* C18: create_object(key) returns, for every two-letter key xy with x and *)
(* y in {a, b, c}, a new instance of the product named by y, whichever the *)
(* factory x is; for every other key it returns None and makes nothing.    *)
(***************************************************************************)
ProductNamed(letter) ==
    CASE letter = "a" -> "ConcreteProductA"
      [] letter = "b" -> "ConcreteProductB"
      [] letter = "c" -> "ConcreteProductC"

TwoLetterKey(key) ==
    /\ key.ty = "str"
    /\ Len(key.s) = 2
    /\ \A k \in 1 .. 2 : key.s[k] \in {"a", "b", "c"}

C18_Product ==
    af_last.op = "create_object" =>
        IF TwoLetterKey(af_last.key)
        THEN /\ af_last.ret = Len(af_last.before) + 1
             /\ af_products = Append(af_last.before, ProductNamed(af_last.key.s[2]))
        ELSE /\ af_last.ret = 0
             /\ af_products = af_last.before

C18_Witness ==
    /\ af_last.op = "create_object"
    /\ af_last.key = Str(<<"c", "b">>)
    /\ af_products[af_last.ret] = "ConcreteProductB"
    /\ Len(af_last.before) > 0

(***************************************************************************)
(* C19: root.interpret() on the tree folded left to right from the tokens  *)
(* n0 op1 n1 op2 n2 ... returns the value of evaluating the sequence left  *)
(* to right (11 for 5 + 4 - 3 + 7 - 2); interpreting leaves the tree as it *)
(* was built, and a repeated interpret() returns the same value.           *)
(***************************************************************************)
\* The value of the first k operators applied left to right
RECURSIVE LeftToRight(_, _)
LeftToRight(toks, k) ==
    IF k = 0 THEN int(toks[1])
    ELSE IF toks[2 * k] = <<"+">>
         THEN LeftToRight(toks, k - 1) + int(toks[2 * k + 1])
         ELSE LeftToRight(toks, k - 1) - int(toks[2 * k + 1])

C19_Interpret ==
    int_rets # <<>> =>
        /\ \A k \in 1 .. Len(int_rets) :
              int_rets[k] = LeftToRight(tokens, (Len(tokens) - 1) \div 2)
        /\ ast_root = <<AstRow(tokens, (Len(tokens) - 1) \div 2)>>

C19_Witness ==
    /\ tokens = <<(<<"5">>), (<<"+">>), (<<"4">>), (<<"-">>), (<<"3">>), (<<"+">>),
                  (<<"7">>), (<<"-">>), (<<"2">>)>>
    /\ int_rets = <<11, 11>>

(***************************************************************************)
(* C20: template_method() calls operation_01, operation_02, operation_03   *)
(* once each in this order, each in the subclass's override where there is *)
(* one and of AbstractClass otherwise. ConcreteClassA prints nothing for   *)
(* step one, the default hook line, then 'Class A : Step Three             *)
(* (overridden)'; ConcreteClassB prints its three overridden lines.        *)
(***************************************************************************)
Overridden(cls) ==
    IF cls = "ConcreteClassA" THEN {"operation_03"}
    ELSE IF cls = "ConcreteClassB" THEN {"operation_01", "operation_02", "operation_03"}
    ELSE {}

NewOutput == SubSeq(console, Len(tm_last.before) + 1, Len(console))

C20_Template ==
    tm_last.op = "template_method" =>
        /\ [k \in 1 .. Len(tm_last.calls) |-> tm_last.calls[k].operation]
              = <<"operation_01", "operation_02", "operation_03">>
        /\ \A k \in 1 .. Len(tm_last.calls) :
              tm_last.calls[k].of =
                  IF tm_last.calls[k].operation \in Overridden(tm_last.cls)
                  THEN tm_last.cls ELSE "AbstractClass"
        /\ SubSeq(console, 1, Len(tm_last.before)) = tm_last.before
        /\ tm_last.cls = "ConcreteClassA" =>
              NewOutput = <<"Step Three is a hook that prints this line by default.",
                            "Class A : Step Three (overridden)">>
        /\ tm_last.cls = "ConcreteClassB" =>
              NewOutput = <<"Class B : Step One (overridden)",
                            "Class B : Step Two (overridden)",
                            "Class B : Step Three (overridden)">>

C20_Witness ==
    /\ tm_last.op = "template_method"
    /\ tm_last.cls = "ConcreteClassB"
    /\ console = <<"Step Three is a hook that prints this line by default.",
                   "Class A : Step Three (overridden)",
                   "Class B : Step One (overridden)",
                   "Class B : Step Two (overridden)",
                   "Class B : Step Three (overridden)">>

(***************************************************************************)
(* C21: handle is None (before the first request) or one of the three      *)
(* state objects made at construction; request() returns the new handle,   *)
(* whose label is 'State A', 'State B' or 'State C'; change_state() leaves *)
(* handle and the state objects as they were.                              *)
(***************************************************************************)
C21_Handle ==
    /\ state_handles = <<"state_a", "state_b", "state_c">>
    /\ IF st_requests > 0 THEN handle \in Range(state_handles) ELSE handle = None
    /\ st_last.op = "request" =>
          /\ st_last.ret = handle
          /\ State_str(st_last.ret) \in {"State A", "State B", "State C"}
    /\ st_last.op = "change_state" => handle = st_last.before

C21_Witness ==
    /\ st_last.op = "change_state"
    /\ state = "state_a"
    /\ handle = "state_c"

(***************************************************************************)
(* C22: for every value v, Facade.sub_system_class_b(v) and                *)
(* Facade.sub_system_class_c(v) return what SubSystemClassB.method(v) and  *)
(* SubSystemClassC.method(v) return, the value v itself, and               *)
(* Facade.sub_system_class_a() returns what SubSystemClassA.method() does. *)
(***************************************************************************)
C22_Passthrough ==
    /\ fac_last.op = "sub_system_class_a" => fac_last.ret = SubSystemClassA_method
    /\ fac_last.op = "sub_system_class_b" =>
          /\ fac_last.ret = SubSystemClassB_method(fac_last.arg)
          /\ fac_last.ret = fac_last.arg
    /\ fac_last.op = "sub_system_class_c" =>
          /\ fac_last.ret = SubSystemClassC_method(fac_last.arg)
          /\ fac_last.ret = fac_last.arg

C22_Witness ==
    /\ fac_last.op = "sub_system_class_c"
    /\ fac_last.arg = PyValue("list", 1, <<1, 2, 3>>)
    /\ fac_last.ret = PyValue("list", 1, <<1, 2, 3>>)

(***************************************************************************)
(* C23: Decorator(obj).decorated_method() returns 'Decorator method(' +    *)
(* obj.decorated_method() + ')': n decorators nested around a              *)
(* ConcreteComponent return 'Component Intrinsic Method' in exactly n      *)
(* 'Decorator method(...)' layers, and the call leaves the result of the   *)
(* wrapped object's own decorated_method() as it was.                      *)
(***************************************************************************)
\* The number of decorators around the component at the core of o
RECURSIVE Layers(_)
Layers(o) ==
    IF dec_objects[o].class = "ConcreteComponent" THEN 0
    ELSE 1 + Layers(dec_objects[o].object)

RECURSIVE Wrapped(_)
Wrapped(n) ==
    IF n = 0 THEN "Component Intrinsic Method"
    ELSE "Decorator method(" \o Wrapped(n - 1) \o ")"

C23_Layers ==
    dec_last.op = "decorated_method" =>
        /\ dec_last.ret = Wrapped(Layers(dec_last.obj))
        /\ dec_objects = dec_last.before
        /\ dec_objects[dec_last.obj].class = "Decorator" =>
              /\ dec_last.ret = "Decorator method("
                    \o decorated_method(dec_last.before, dec_objects[dec_last.obj].object)
                    \o ")"
              /\ decorated_method(dec_objects, dec_objects[dec_last.obj].object)
                    = decorated_method(dec_last.before, dec_objects[dec_last.obj].object)

C23_Witness ==
    /\ dec_last.op = "decorated_method"
    /\ Layers(dec_last.obj) = 2
    /\ dec_last.ret = "Decorator method(Decorator method(Component Intrinsic Method))"

(***************************************************************************)
(* C24: Colleague1.colleague_02_method() and                               *)
(* Colleague2.colleague_01_method() always raise NotImplementedError and   *)
(* return no value.                                                        *)
(***************************************************************************)
CrossCall(colleague, method) ==
    \/ colleague = "Colleague1" /\ method = "colleague_02_method"
    \/ colleague = "Colleague2" /\ method = "colleague_01_method"

C24_NotImplemented ==
    (/\ med_last.op = "colleague"
     /\ CrossCall(med_last.colleague, med_last.method))
        => med_last.out = [ret |-> None, raised |-> "NotImplementedError"]

C24_Witness ==
    /\ med_last.op = "colleague"
    /\ med_last.colleague = "Colleague2"
    /\ med_last.method = "colleague_01_method"
    /\ med_last.out.raised = "NotImplementedError"

(***************************************************************************)
(* C25: Mediator.colleague_01_method() returns Colleague1's fixed response *)
(* and Mediator.colleague_02_method() Colleague2's, on every call and in   *)
(* any call order; a call through the Mediator never reaches a colleague's *)
(* not-implemented cross-call, so the Mediator's methods never raise.      *)
(***************************************************************************)
\* The bodies reached by the calls made through the Mediator alone
ReachedByMediator ==
    {<<MediatorTarget(med_calls[k][2]), med_calls[k][2]>> :
        k \in {j \in 1 .. Len(med_calls) : med_calls[j][1] = "Mediator"}}

C25_Mediator ==
    /\ med_last.op = "mediator" =>
          /\ med_last.out.raised = None
          /\ med_last.method = "colleague_01_method"
                => med_last.out.ret = "Resonse form the Colleague 01"
          /\ med_last.method = "colleague_02_method"
                => med_last.out.ret = "Resonse form the Colleague 02"
    /\ \A c \in ReachedByMediator : ~CrossCall(c[1], c[2])

C25_Witness ==
    /\ med_last.op = "mediator"
    /\ med_last.method = "colleague_01_method"
    /\ Len(med_calls) = 3
    /\ med_calls[1] = <<"Mediator", "colleague_02_method">>
    /\ med_calls[2] = <<"Colleague1", "colleague_02_method">>

(***************************************************************************)
(* C26: after any sequence of attach() and detach() calls, every component *)
(* appears in the components list of at most one composite and at most     *)
(* once in it, and a component is in composite p's components if and only  *)
(* if its reference_to_parent is p.                                        *)
(***************************************************************************)
RECURSIVE Occurrences(_, _)
Occurrences(list, x) ==
    IF list = <<>> THEN 0
    ELSE (IF Head(list) = x THEN 1 ELSE 0) + Occurrences(Tail(list), x)

C27_DetachNoOp ==
    (comp_last.op = "detach" /\ comp_last.was \notin Composites) =>
        /\ comp_last.raised = None
        /\ \A p \in Composites : comp_last.child \notin Range(components[p])

(***************************************************************************)
(* C28: stored mementos are immutable. restore(i) changes only the         *)
(* originator's state and adds, removes or alters no memento; assigning a  *)
(* new state after create() does not change the mementos stored before;    *)
(* restore(i) yields the state of memento i whatever was restored earlier. *)
(***************************************************************************)
C28_Immutable ==
    /\ Len(_mementos) = Len(mem_taken)
    /\ \A k \in 1 .. Len(_mementos) : _mementos[k] = [state |-> mem_taken[k]]
    /\ (mem_last.op = "restore" /\ mem_last.raised = None) =>
          _state = PyIndex(_mementos, mem_last.i).state

\* The first of three mementos restored, its state unlike the two stored later
C28_Witness ==
    /\ mem_last.op = "restore" /\ mem_last.i = -3 /\ mem_last.raised = None
    /\ _mementos = <<[state |-> "State #3"], [state |-> "State #1"], [state |-> "State #2"]>>
    /\ _state = "State #3"

(***************************************************************************)
(* C29: unsubscribe(observer) removes exactly that observer when it is     *)
(* subscribed; for an observer that is not subscribed it raises an error   *)
(* and leaves the set of observers unchanged.                              *)
(***************************************************************************)
C29_Unsubscribe ==
    obs_last.op = "unsubscribe" =>
        IF obs_last.who \in obs_last.before
        THEN /\ obs_last.raised = None
             /\ _observers = obs_last.before \ {obs_last.who}
        ELSE /\ obs_last.raised = "KeyError"
             /\ _observers = obs_last.before

\* B was removed by one unsubscribe and a second unsubscribe of B failed
C29_Witness ==
    /\ obs_last.op = "unsubscribe" /\ obs_last.who = "B"
    /\ obs_last.raised = "KeyError"
    /\ obs_evt["B"] = "unsubscribed"
    /\ _observers = {"A", "C"}

(***************************************************************************)
(* C30: clone(mode) with a mode other than 'shallow', 'referential' and    *)
(* 'deep' produces no clone: the call fails with an error and leaves the   *)
(* original's field unchanged.                                             *)
(***************************************************************************)
KnownModes == {"shallow", "referential", "deep"}

C30_UnknownMode ==
    /\ \A p \in 1 .. Len(field) : proto_how[p].mode \in KnownModes \cup {"new"}
    /\ (proto_last.op = "clone" /\ proto_last.mode \notin KnownModes) =>
          /\ proto_last.raised # None
          /\ field = proto_last.fields
          /\ lists = proto_last.before

\* clone('other') on a prototype whose list was changed once before
C30_Witness ==
    /\ proto_last.op = "clone" /\ proto_last.mode = "other"
    /\ proto_last.raised = "UnboundLocalError"
    /\ proto_last.proto = 1
    /\ field = <<1>>
    /\ lists = << <<IntV(1), IntV(5), IntV(3), IntV(4)>> >>

=============================================================================
